---- MODULE Spec2Model ----
(***************************************************************************)
(* Eyegle: the safety gate (src/utils/safety.py), the system controller    *)
(* (src/core/controller.py) and the gaze mapper (src/core/gaze_mapper.py). *)
(*                                                                         *)
(* Time is time.time() in milliseconds; it advances in steps of TickMs.    *)
(* SpecSafety drives the SafetyManager interface directly, SpecController  *)
(* drives it the way the application does, through SystemController, and   *)
(* SpecMapper drives the calibration interface of GazeMapper.              *)
(***************************************************************************)
EXTENDS Integers, Sequences, FiniteSets, TLC

VARIABLES
    now,               \* time.time(), in ms
    enabled,           \* SafetyManager.enabled
    paused,            \* SafetyManager.paused
    click_times,       \* SafetyManager.click_times (deque, oldest first)
    action_cooldowns,  \* SafetyManager.action_cooldowns (dict kind -> time)
    last_face_time,    \* SafetyManager.last_face_time
    nreg,              \* history: register_action calls made so far
    click_log,         \* history: the times of all register_action('click')
    reg_log,           \* history: kind -> time of its last register_action
    fresh,             \* history: what was registered since the last resume()
    stopped,           \* history: emergency_stop() came and no resume() since
    probed,            \* history: update_face_detection(True) came while stopped
    cursor_enabled,    \* SystemController.cursor_enabled
    keyboard_mode,     \* SystemController.keyboard_mode
    last_action_time,  \* SystemController.last_action_time
    last_req,          \* history: what the controller request just handled did
    calibration_points, \* GazeMapper.calibration_points
    is_calibrated,     \* GazeMapper.is_calibrated
    transform_matrix,  \* GazeMapper.transform_matrix, entries num / den
    eye_dominance,     \* GazeMapper.eye_dominance
    last_fit,          \* history: what the mapper operation just run reported
    current_state,     \* ExpressionEngine.current_state
    last_blink_time,   \* ExpressionEngine.last_blink_time
    baseline_left_ear, \* ExpressionEngine.baseline_left_ear, in 1/1000
    baseline_right_ear, \* ExpressionEngine.baseline_right_ear, in 1/1000
    baseline_samples,  \* ExpressionEngine.baseline_samples: length and sums
    baseline_initialized, \* ExpressionEngine.baseline_initialized
    left_eye_closed,   \* ExpressionEngine.left_eye_closed
    right_eye_closed,  \* ExpressionEngine.right_eye_closed
    both_eyes_closed,  \* ExpressionEngine.both_eyes_closed
    blink_start_time,  \* ExpressionEngine.blink_start_time
    seen,              \* history: the observations since construction or reset()
    last_obs,          \* history: what the detect_expression call just made did
    state,             \* Calibrator.state
    current_target_index, \* Calibrator.current_target_index
    targets,           \* Calibrator.targets
    target_start_time, \* Calibrator.target_start_time
    last_cal,          \* history: what the Calibrator call just made did
    activation,        \* history: the target next_target() activated last, and when
    thread,            \* Camera.thread is not None
    running,           \* CameraThread.running
    frame_queue,       \* CameraThread.frame_queue, oldest first
    consecutive_failures, \* consecutive_failures of CameraThread.run
    camera_pc,         \* where CameraThread.run stands
    frame,             \* frame of CameraThread.run
    latest_frame,      \* Camera.latest_frame
    getters,           \* the get_frame call of each consumer: place and locals
    camera,            \* history: reads, losses and stops of the acquisition
    last_get,          \* history: what the get_frame call just ended returned
    mapping,           \* the gaze_to_screen call of ProcessingThread.run
    gaze_estimate,     \* history: the last estimate_gaze call and its result
    smoother,          \* the CursorSmoother and its three filters
    last_smooth,       \* history: the last operation on the smoother
    app                \* MainWindow: tracking, its thread and the calibration

safetyVars == <<enabled, paused, click_times, action_cooldowns, last_face_time>>

histVars == <<nreg, click_log, reg_log, fresh, stopped, probed>>

ctrlVars == <<cursor_enabled, keyboard_mode, last_action_time>>

mapperVars == <<calibration_points, is_calibrated, transform_matrix,
                eye_dominance, last_fit>>

gateVars == <<now, safetyVars, histVars, ctrlVars, last_req>>

engineVars == <<current_state, last_blink_time, baseline_left_ear,
                baseline_right_ear, baseline_samples, baseline_initialized,
                left_eye_closed, right_eye_closed, both_eyes_closed,
                blink_start_time>>

exprVars == <<engineVars, seen, last_obs>>

calVars == <<state, current_target_index, targets, target_start_time,
             last_cal, activation>>

cameraVars == <<thread, running, frame_queue, consecutive_failures, camera_pc,
                frame, latest_frame, getters, camera, last_get>>

readerVars == <<mapping, gaze_estimate, smoother, last_smooth>>

appVars == <<app>>

pipelineVars == <<cameraVars, readerVars, appVars>>

vars == <<now, enabled, paused, click_times, action_cooldowns, last_face_time,
          nreg, click_log, reg_log, fresh, stopped,
          probed, cursor_enabled, keyboard_mode, last_action_time, last_req,
          calibration_points, is_calibrated, transform_matrix,
          eye_dominance, last_fit,
          current_state, last_blink_time, baseline_left_ear,
          baseline_right_ear, baseline_samples, baseline_initialized,
          left_eye_closed, right_eye_closed, both_eyes_closed,
          blink_start_time, seen, last_obs,
          state, current_target_index, targets, target_start_time,
          last_cal, activation,
          thread, running, frame_queue, consecutive_failures, camera_pc,
          frame, latest_frame, getters, camera, last_get, mapping,
          gaze_estimate, smoother, last_smooth, app>>

----------------------------------------------------------------------------
(* Bounds of the exploration *)

TickMs == 200       \* granularity of the clock
StartTime == 1000   \* time.time() when the objects are constructed
MaxTime == 6       \* SpecSafety: the clock runs for MaxTime ticks
MaxCtrlTime == 4    \* SpecController: the clock runs for MaxCtrlTime ticks
MaxRegs == 2        \* register_action calls explored in one run
MaxClicks == 3      \* SpecClicks: clicks registered in one run

----------------------------------------------------------------------------
(* SafetyManager.__init__ *)

Kinds == {"click", "scroll", "key"}

\* config['max_clicks_per_second'], here 2 (the settings dialog offers 1..10)
max_clicks_per_second == 2

click_times_maxlen == 10

auto_pause_no_face_ms == 400

no_face_timeout == auto_pause_no_face_ms

cooldown_table == [click |-> 200, scroll |-> 100, key |-> 300]

\* self.cooldown_times.get(action_type, 0)
cooldown_times(kind) ==
    IF kind \in DOMAIN cooldown_table THEN cooldown_table[kind] ELSE 0

click_window_ms == 1000

----------------------------------------------------------------------------
(* Helpers of the gate *)

\* history record of a controller request: the branch of execute_action it
\* took, whether the gate was active when it came, what can_perform_action
\* returned to it, whether its effect took place (the event reached the
\* operating system, the keyboard mode flipped) and how many times it called
\* register_action
NoReq == [kind |-> "none", active |-> FALSE, allowed |-> FALSE,
          effect |-> FALSE, registered |-> 0]

Called(name) == [NoReq EXCEPT !.kind = name, !.active = enabled /\ ~paused]

NoFresh == [clicks |-> 0, kinds |-> {}]

\* the history after register_action(kind) at time t
logged_clicks(kind, t) == IF kind = "click" THEN Append(click_log, t) ELSE click_log

logged_fresh(kind) ==
    [clicks |-> IF kind = "click" THEN fresh.clicks + 1 ELSE fresh.clicks,
     kinds |-> fresh.kinds \cup {kind}]

\* deque.append on a deque with maxlen: the oldest entry falls out
deque_append(dq, t) ==
    IF Len(dq) >= click_times_maxlen THEN Append(Tail(dq), t) ELSE Append(dq, t)

\* the while loop of _check_click_rate: pop from the left while the head is
\* older than one second
RECURSIVE remove_old_clicks(_, _)
remove_old_clicks(dq, t) ==
    IF dq # <<>> /\ t - Head(dq) > click_window_ms
    THEN remove_old_clicks(Tail(dq), t)
    ELSE dq

\* a window that admits one click too many
check_click_rate_off_by_one(dq, t) ==
    Len(remove_old_clicks(dq, t)) <= max_clicks_per_second

\* the value _check_click_rate returns once the window is pruned
_check_click_rate(dq, t) == Len(remove_old_clicks(dq, t)) < max_clicks_per_second

\* a cooldown test that looks at every registered kind, not at the one asked
in_cooldown_any_kind(kind, cds, t) ==
    \E k \in DOMAIN cds : t - cds[k] < cooldown_times(k)

\* the cooldown test of can_perform_action
in_cooldown(kind, cds, t) ==
    /\ kind \in DOMAIN cds
    /\ t - cds[kind] < cooldown_times(kind)

is_active == enabled /\ ~paused

\* the value can_perform_action(kind) returns in the current state
can_perform_value(kind) ==
    IF ~enabled \/ paused THEN FALSE
    ELSE IF in_cooldown(kind, action_cooldowns, now) THEN FALSE
    ELSE IF kind = "click" THEN _check_click_rate(click_times, now)
    ELSE TRUE

\* the click window can_perform_action(kind) leaves behind: _check_click_rate
\* runs, and prunes, only for a click that passed the latches and the cooldown
can_perform_window(kind) ==
    IF /\ enabled /\ ~paused
       /\ ~in_cooldown(kind, action_cooldowns, now)
       /\ kind = "click"
    THEN remove_old_clicks(click_times, now)
    ELSE click_times

\* the dict after self.action_cooldowns[action_type] = time.time()
set_cooldown(cds, kind, t) ==
    [k \in DOMAIN cds \cup {kind} |-> IF k = kind THEN t ELSE cds[k]]

\* the window after register_action(kind)
registered_window(kind, dq, t) ==
    IF kind = "click" THEN deque_append(dq, t) ELSE dq

----------------------------------------------------------------------------
(* Operations of SafetyManager, called directly *)

\* a face update that pauses as soon as the timeout is reached
update_face_detection_eager(face_detected) ==
    /\ IF face_detected
       THEN /\ last_face_time' = now
            /\ paused' = IF paused /\ enabled THEN FALSE ELSE paused
       ELSE /\ last_face_time' = last_face_time
            /\ paused' = IF now - last_face_time >= no_face_timeout
                         THEN TRUE ELSE paused
    /\ probed' = (probed \/ (stopped /\ face_detected))
    /\ UNCHANGED <<now, enabled, click_times, action_cooldowns,
                   nreg, click_log, reg_log, fresh,
                   stopped, ctrlVars, mapperVars, exprVars, calVars, pipelineVars>>
    /\ last_req' = NoReq

\* a face update that clears the pause without looking at enabled
update_face_detection_unlatched(face_detected) ==
    /\ IF face_detected
       THEN /\ last_face_time' = now
            /\ paused' = FALSE
       ELSE /\ last_face_time' = last_face_time
            /\ paused' = IF now - last_face_time > no_face_timeout
                         THEN TRUE ELSE paused
    /\ probed' = (probed \/ (stopped /\ face_detected))
    /\ UNCHANGED <<now, enabled, click_times, action_cooldowns,
                   nreg, click_log, reg_log, fresh,
                   stopped, ctrlVars, mapperVars, exprVars, calVars, pipelineVars>>
    /\ last_req' = NoReq

update_face_detection(face_detected) ==
    /\ IF face_detected
       THEN /\ last_face_time' = now
            /\ paused' = IF paused /\ enabled THEN FALSE ELSE paused
       ELSE /\ last_face_time' = last_face_time
            /\ paused' = IF now - last_face_time > no_face_timeout
                         THEN TRUE ELSE paused
    /\ probed' = (probed \/ (stopped /\ face_detected))
    /\ UNCHANGED <<now, enabled, click_times, action_cooldowns,
                   nreg, click_log, reg_log, fresh,
                   stopped, ctrlVars, mapperVars, exprVars, calVars, pipelineVars>>
    /\ last_req' = NoReq

can_perform_action(kind) ==
    /\ click_times' = can_perform_window(kind)
    /\ last_req' = NoReq
    /\ UNCHANGED <<now, enabled, paused, action_cooldowns, last_face_time,
                   histVars, ctrlVars, mapperVars, exprVars, calVars, pipelineVars>>

register_action(kind) ==
    /\ nreg < MaxRegs
    /\ nreg' = nreg + 1
    /\ action_cooldowns' = set_cooldown(action_cooldowns, kind, now)
    /\ click_times' = registered_window(kind, click_times, now)
    /\ click_log' = logged_clicks(kind, now)
    /\ reg_log' = set_cooldown(reg_log, kind, now)
    /\ fresh' = logged_fresh(kind)
    /\ UNCHANGED <<now, enabled, paused, last_face_time,
                   stopped, probed, ctrlVars, mapperVars, exprVars, calVars, pipelineVars>>
    /\ last_req' = NoReq

emergency_stop ==
    /\ enabled' = FALSE
    /\ paused' = TRUE
    /\ stopped' = TRUE
    /\ probed' = FALSE
    /\ last_req' = NoReq
    /\ UNCHANGED <<now, click_times, action_cooldowns, last_face_time,
                   nreg, click_log, reg_log, fresh,
                   ctrlVars, mapperVars, exprVars, calVars, pipelineVars>>

resume ==
    /\ enabled' = TRUE
    /\ paused' = FALSE
    /\ click_times' = <<>>
    /\ action_cooldowns' = <<>>
    /\ stopped' = FALSE
    /\ probed' = FALSE
    /\ fresh' = NoFresh
    /\ last_req' = NoReq
    /\ UNCHANGED <<now, last_face_time, nreg,
                   click_log, reg_log, ctrlVars, mapperVars, exprVars, calVars, pipelineVars>>

\* time passes between two calls
Tick(limit) ==
    /\ now < StartTime + limit * TickMs
    /\ now' = now + TickMs
    /\ last_req' = NoReq
    /\ UNCHANGED <<safetyVars, histVars, ctrlVars, mapperVars, exprVars, calVars, pipelineVars>>

----------------------------------------------------------------------------
(* SystemController *)

debounce_ms == 100

\* the branch of execute_action an action name takes: the gate kind of the
\* method it calls, "toggle_keyboard", or "unknown"
action_table ==
    [left_click |-> "click", right_click |-> "click", double_click |-> "click",
     back |-> "key", forward |-> "key", scroll_up |-> "scroll",
     scroll_down |-> "scroll", enter |-> "key",
     toggle_keyboard |-> "toggle_keyboard", volume_up |-> "key",
     volume_down |-> "key", play_pause |-> "key", cancel |-> "key"]

Actions == DOMAIN action_table \cup {"wink_menu"}

Branches == {"click", "scroll", "key", "toggle_keyboard", "unknown"}

action_branch(action) ==
    IF action \in DOMAIN action_table THEN action_table[action] ELSE "unknown"

\* one action name for every branch of execute_action
ActionSamples == {CHOOSE a \in Actions : action_branch(a) = b : b \in Branches}

\* click, scroll and key_press share one shape: ask the gate, return if it
\* says no, dispatch to the operating system inside try, register after the
\* dispatch; an exception raised by the dispatch skips the registration.
gated_dispatch(kind, raises) ==
    LET allowed == can_perform_value(kind)
        window == can_perform_window(kind)
        done == allowed /\ ~raises
    IN  /\ click_times' = IF done THEN registered_window(kind, window, now)
                          ELSE window
        /\ action_cooldowns' = IF done
                               THEN set_cooldown(action_cooldowns, kind, now)
                               ELSE action_cooldowns
        /\ nreg' = IF done THEN nreg + 1 ELSE nreg
        /\ click_log' = IF done THEN logged_clicks(kind, now) ELSE click_log
        /\ reg_log' = IF done THEN set_cooldown(reg_log, kind, now) ELSE reg_log
        /\ fresh' = IF done THEN logged_fresh(kind) ELSE fresh
        /\ last_req' = [Called(kind) EXCEPT
                           !.allowed = allowed,
                           !.effect = done,
                           !.registered = IF done THEN 1 ELSE 0]
        /\ UNCHANGED <<enabled, paused, last_face_time, stopped, probed>>

click(raises) == gated_dispatch("click", raises)

scroll(raises) == gated_dispatch("scroll", raises)

key_press(raises) == gated_dispatch("key", raises)

\* SystemController.click called on its own, without the debounce of
\* execute_action
SystemController_click(raises) ==
    /\ nreg < MaxClicks
    /\ click(raises)
    /\ UNCHANGED <<now, ctrlVars, mapperVars, exprVars, calVars, pipelineVars>>

\* MainWindow._on_expression_detected -> SystemController.execute_action
execute_action(action, raises) ==
    /\ nreg < MaxRegs
    /\ IF now - last_action_time < debounce_ms
       THEN /\ last_req' = Called("debounced")
            /\ UNCHANGED <<safetyVars, histVars, keyboard_mode,
                           last_action_time>>
       ELSE /\ last_action_time' = now
            /\ IF action_branch(action) = "click"
               THEN click(raises) /\ UNCHANGED keyboard_mode
               ELSE IF action_branch(action) = "scroll"
               THEN scroll(raises) /\ UNCHANGED keyboard_mode
               ELSE IF action_branch(action) = "key"
               THEN key_press(raises) /\ UNCHANGED keyboard_mode
               ELSE IF action_branch(action) = "toggle_keyboard"
               THEN /\ keyboard_mode' = ~keyboard_mode
                    /\ last_req' = [Called("toggle_keyboard") EXCEPT
                                       !.effect = TRUE]
                    /\ UNCHANGED <<safetyVars, histVars>>
               ELSE /\ last_req' = Called("unknown")
                    /\ UNCHANGED <<safetyVars, histVars, keyboard_mode>>
    /\ UNCHANGED <<now, cursor_enabled, mapperVars, exprVars, calVars, pipelineVars>>

\* MainWindow._on_frame_processed reports the face to the gate
on_frame_processed(face_detected) == update_face_detection(face_detected)

\* MainWindow._emergency_stop: SystemController.emergency_stop, then
\* SafetyManager.emergency_stop
app_emergency_stop ==
    /\ cursor_enabled' = FALSE
    /\ keyboard_mode' = FALSE
    /\ enabled' = FALSE
    /\ paused' = TRUE
    /\ stopped' = TRUE
    /\ probed' = FALSE
    /\ last_req' = NoReq
    /\ UNCHANGED <<now, click_times, action_cooldowns, last_face_time,
                   nreg, click_log, reg_log, fresh,
                   last_action_time, mapperVars, exprVars, calVars, pipelineVars>>

----------------------------------------------------------------------------
(* GazeMapper (src/core/gaze_mapper.py).  Matrices are tuples of rows.  A  *)
(* transform is kept exactly, as integer numerators over one positive      *)
(* denominator in lowest terms, where numpy holds the nearest floats.      *)

MaxPoints == 4

\* the screen size the mapper is constructed with
screen_width == 1280

screen_height == 720

\* the camera frame size the application passes to add_calibration_point
frame_size == <<1280, 720>>

\* the frame centre set_calibration_data assumes
half_frame == <<640, 360>>

min_calibration_points == 4

\* what the calibration screen collects for one target: the target and the
\* two iris centres seen while the user looks at it
Samples ==
    { [screen_pos |-> <<100, 100>>,
       left_iris |-> <<0, 0>>, right_iris |-> <<0, 0>>],
      [screen_pos |-> <<1180, 100>>,
       left_iris |-> <<1280, 0>>, right_iris |-> <<1280, 0>>],
      [screen_pos |-> <<640, 360>>,
       left_iris |-> <<0, 0>>, right_iris |-> <<1280, 720>>] }

sample_at(x, y) == CHOOSE s \in Samples : s.screen_pos = <<x, y>>

\* the lists handed to set_calibration_data: too short, in general position,
\* on one line, all at one point
DataLists ==
    LET a == sample_at(100, 100)
        b == sample_at(1180, 100)
        c == sample_at(640, 360)
    IN  { <<a, b, c>>, <<a, b, c, a>>, <<a, a, b, b>>, <<a, a, a, a>> }

NullMatrix == [num |-> <<>>, den |-> 0]

\* the calibration files load_calibration may find: a good one, one of
\* another screen, one without matrix, and files lacking a field
Profiles ==
    LET m == [num |-> <<<<600, 0, 640>>, <<0, 300, 360>>>>, den |-> 1]
    IN  { [screen_width |-> screen_width, screen_height |-> screen_height,
           eye_dominance |-> "left", transform_matrix |-> m],
          [screen_width |-> screen_width + 640, screen_height |-> screen_height,
           eye_dominance |-> "left", transform_matrix |-> m],
          [screen_width |-> screen_width, screen_height |-> screen_height,
           eye_dominance |-> "right", transform_matrix |-> NullMatrix],
          [screen_width |-> screen_width, screen_height |-> screen_height,
           transform_matrix |-> m],
          [screen_width |-> screen_width, screen_height |-> screen_height,
           eye_dominance |-> "left"],
          [screen_height |-> screen_height,
           eye_dominance |-> "left", transform_matrix |-> m],
          [screen_width |-> screen_width, screen_height |-> screen_height + 360,
           eye_dominance |-> "right", transform_matrix |-> m],
          [screen_width |-> screen_width + 640, screen_height |-> screen_height,
           transform_matrix |-> m] }

NoFit == [op |-> "none", ok |-> FALSE, changed |-> FALSE,
          points |-> 0, degenerate |-> FALSE, mismatch |-> FALSE]

abs(x) == IF x < 0 THEN -x ELSE x

RECURSIVE gcd(_, _)
gcd(a, b) == IF b = 0 THEN a ELSE gcd(b, a % b)

RECURSIVE gcd_all(_)
gcd_all(xs) == IF xs = <<>> THEN 0 ELSE gcd(abs(Head(xs)), gcd_all(Tail(xs)))

RECURSIVE sum(_, _)
sum(f, n) == IF n = 0 THEN 0 ELSE f[n] + sum(f, n - 1)

\* the function f on 1..n as a tuple
RECURSIVE tuple(_, _)
tuple(f, n) == IF n = 0 THEN <<>> ELSE Append(tuple(f, n - 1), f[n])

matrix(f, rows, cols) ==
    tuple([i \in 1..rows |-> tuple(f[i], cols)], rows)

\* np.array of the rows num / den, den > 0
array(num, den) ==
    LET g == gcd_all(<<den>> \o num[1] \o num[2])
    IN  [num |-> matrix([k \in 1..2 |-> [i \in 1..3 |-> num[k][i] \div g]],
                        2, 3),
         den |-> den \div g]

_init_default_mapping ==
    array(<<<<screen_width, 0, screen_width>>,
            <<0, screen_height, screen_height>>>>, 2)

\* (pos / dimension) * 2 - 1, exact for the iris positions of Samples
normalized(pos, dimension) == ((pos * 2) \div dimension) - 1

estimate_gaze(left_iris, right_iris, frame_dims, dominance) ==
    LET left_norm == [i \in 1..2 |-> normalized(left_iris[i], frame_dims[i])]
        right_norm == [i \in 1..2 |-> normalized(right_iris[i], frame_dims[i])]
    IN  tuple(IF dominance = "left" THEN left_norm
              ELSE IF dominance = "right" THEN right_norm
              ELSE [i \in 1..2 |-> (left_norm[i] + right_norm[i]) \div 2],
              2)

\* the gaze set_calibration_data computes for one entry
norm_gaze(point) ==
    tuple([i \in 1..2 |->
              (((point.left_iris[i] + point.right_iris[i]) \div 2)
                  \div half_frame[i]) - 1],
          2)

homogeneous(gaze) == <<gaze[1], gaze[2], 1>>

cyc(i) == (i % 3) + 1

\* the cofactor of B[i][j], B a 3 x 3 matrix
cofactor(B, i, j) ==
    B[cyc(i)][cyc(j)] * B[cyc(cyc(i))][cyc(cyc(j))]
      - B[cyc(i)][cyc(cyc(j))] * B[cyc(cyc(i))][cyc(j)]

det(B) == sum([j \in 1..3 |-> B[1][j] * cofactor(B, 1, j)], 3)

matmul(A, B) ==
    matrix([i \in 1..3 |-> [j \in 1..3 |->
               sum([k \in 1..3 |-> A[i][k] * B[k][j]], 3)]], 3, 3)

\* the pseudo-inverse of the Gram matrix B = G.T @ G, as numerators over a
\* denominator: the inverse if B has rank 3, else the inverse on the range
\* of B (c1 and c2 are the sums of its eigenvalues and of their products)
pinv(B) ==
    LET c1 == B[1][1] + B[2][2] + B[3][3]
        c2 == cofactor(B, 1, 1) + cofactor(B, 2, 2) + cofactor(B, 3, 3)
        rest == matrix([i \in 1..3 |-> [j \in 1..3 |->
                           (IF i = j THEN c1 ELSE 0) - B[i][j]]], 3, 3)
    IN  IF det(B) # 0
        THEN [num |-> matrix([i \in 1..3 |-> [j \in 1..3 |->
                                 cofactor(B, j, i)]], 3, 3),
              den |-> det(B)]
        ELSE IF c2 # 0
        THEN [num |-> matmul(B, matmul(rest, rest)), den |-> c2 * c2]
        ELSE [num |-> B, den |-> c1 * c1]

\* np.linalg.lstsq(G, s, rcond=None)[0] for an N x 3 matrix G and a column
\* s: the least-squares solution of least norm; a G of rank below 3 is
\* solved as well, not rejected
lstsq(G, s) ==
    LET n == Len(G)
        B == matrix([i \in 1..3 |-> [j \in 1..3 |->
                        sum([r \in 1..n |-> G[r][i] * G[r][j]], n)]], 3, 3)
        Gts == tuple([i \in 1..3 |->
                         sum([r \in 1..n |-> G[r][i] * s[r]], n)], 3)
        P == pinv(B)
    IN  [num |-> tuple([i \in 1..3 |->
                           sum([j \in 1..3 |-> P.num[i][j] * Gts[j]], 3)], 3),
         den |-> P.den]

\* the 2 x 3 transform fitted to gaze rows G and screen points S
fitted(G, S) ==
    LET n == Len(G)
        x == lstsq(G, tuple([r \in 1..n |-> S[r][1]], n))
        y == lstsq(G, tuple([r \in 1..n |-> S[r][2]], n))
    IN  array(<<x.num, y.num>>, x.den)

\* all gaze vectors lie on one line or in one point
collinear(gs) ==
    \A i, j, k \in 1..Len(gs) :
        (gs[j][1] - gs[i][1]) * (gs[k][2] - gs[i][2])
          = (gs[j][2] - gs[i][2]) * (gs[k][1] - gs[i][1])

\* a fit that starts at three points
too_few_below_three(points) == Len(points) < 3

too_few(points) == Len(points) < min_calibration_points

\* what a mapper operation reports and whether it changed the calibration
reported(name, ok, n, degenerate) ==
    [op |-> name, ok |-> ok,
     changed |-> <<transform_matrix', is_calibrated', eye_dominance'>>
                   # <<transform_matrix, is_calibrated, eye_dominance>>,
     points |-> n, degenerate |-> degenerate, mismatch |-> FALSE]

add_calibration_point(sample) ==
    /\ Len(calibration_points) < MaxPoints
    /\ calibration_points' =
         Append(calibration_points,
                [screen_pos |-> sample.screen_pos,
                 gaze_pos |-> estimate_gaze(sample.left_iris, sample.right_iris,
                                            frame_size, eye_dominance)])
    /\ last_fit' = NoFit
    /\ UNCHANGED <<is_calibrated, transform_matrix, eye_dominance, gateVars, exprVars, calVars, pipelineVars>>

compute_calibration ==
    LET n == Len(calibration_points)
        gaze == tuple([r \in 1..n |-> calibration_points[r].gaze_pos], n)
        gaze_matrix == tuple([r \in 1..n |-> homogeneous(gaze[r])], n)
        screen_matrix ==
            tuple([r \in 1..n |-> calibration_points[r].screen_pos], n)
    IN  /\ IF too_few(calibration_points)
           THEN UNCHANGED <<transform_matrix, is_calibrated>>
           ELSE /\ transform_matrix' = fitted(gaze_matrix, screen_matrix)
                /\ is_calibrated' = TRUE
        /\ UNCHANGED <<calibration_points, eye_dominance, gateVars, exprVars, calVars, pipelineVars>>
        /\ last_fit' = reported("compute_calibration",
                                ~too_few(calibration_points), n,
                                collinear(gaze))

set_calibration_data(calibration_data) ==
    LET n == Len(calibration_data)
        gaze_points ==
            tuple([r \in 1..n |-> norm_gaze(calibration_data[r])], n)
        gaze_homogeneous ==
            tuple([r \in 1..n |-> homogeneous(gaze_points[r])], n)
        screen_points ==
            tuple([r \in 1..n |-> calibration_data[r].screen_pos], n)
    IN  /\ IF too_few(calibration_data)
           THEN UNCHANGED <<transform_matrix, is_calibrated>>
           ELSE /\ transform_matrix' = fitted(gaze_homogeneous, screen_points)
                /\ is_calibrated' = TRUE
        /\ UNCHANGED <<calibration_points, eye_dominance, gateVars, exprVars, calVars, pipelineVars>>
        /\ last_fit' = reported("set_calibration_data",
                                ~too_few(calibration_data), n,
                                collinear(gaze_points))

\* how far load_calibration gets with the file's data: a missing key raises
\* KeyError where it is read, and the handler returns False
\* the file was saved for a screen of another width or height
dims_differ(data) ==
    \/ "screen_width" \in DOMAIN data /\ data.screen_width # screen_width
    \/ "screen_height" \in DOMAIN data /\ data.screen_height # screen_height

\* a load that compares the width only
load_stage_width_only(data) ==
    IF "screen_width" \notin DOMAIN data THEN "error"
    ELSE IF data.screen_width # screen_width THEN "mismatch"
    ELSE IF "transform_matrix" \notin DOMAIN data THEN "error"
    ELSE IF data.transform_matrix = NullMatrix THEN "empty"
    ELSE IF "eye_dominance" \notin DOMAIN data THEN "matrix_set"
    ELSE "loaded"

load_stage(data) ==
    IF "screen_width" \notin DOMAIN data THEN "error"
    ELSE IF data.screen_width # screen_width THEN "mismatch"
    ELSE IF "screen_height" \notin DOMAIN data THEN "error"
    ELSE IF data.screen_height # screen_height THEN "mismatch"
    ELSE IF "transform_matrix" \notin DOMAIN data THEN "error"
    ELSE IF data.transform_matrix = NullMatrix THEN "empty"
    ELSE IF "eye_dominance" \notin DOMAIN data THEN "matrix_set"
    ELSE "loaded"

load_calibration(data) ==
    LET stage == load_stage(data)
    IN  /\ transform_matrix' = IF stage \in {"matrix_set", "loaded"}
                               THEN data.transform_matrix
                               ELSE transform_matrix
        /\ eye_dominance' = IF stage = "loaded" THEN data.eye_dominance
                            ELSE eye_dominance
        /\ is_calibrated' = IF stage = "loaded" THEN TRUE ELSE is_calibrated
        /\ last_fit' = [reported("load_calibration", stage = "loaded", 0, FALSE)
                           EXCEPT !.mismatch = dims_differ(data)]
        /\ UNCHANGED <<calibration_points, gateVars, exprVars, calVars, pipelineVars>>

reset_calibration ==
    /\ calibration_points' = <<>>
    /\ is_calibrated' = FALSE
    /\ transform_matrix' = _init_default_mapping
    /\ last_fit' = NoFit
    /\ UNCHANGED <<eye_dominance, gateVars, exprVars, calVars, pipelineVars>>

----------------------------------------------------------------------------
(* ExpressionEngine (src/core/expression_engine.py) and the loop of        *)
(* ProcessingThread that feeds it (src/ui/app.py).  Eye aspect ratios are  *)
(* in 1/1000; on the ratios of Ears every mean and comparison is exact.    *)

FrameMs == 100           \* time between two camera frames
MaxFrameTime == 4        \* SpecExpression: the clock runs for this many frames
MaxBaselineBlinks == 1   \* closed eyes among the samples of one baseline

\* config['blink_threshold'] = 0.2, in percent
blink_threshold_pct == 20

long_blink_ms == 400

blink_cooldown_ms == 200

\* the cutoff of a quick single-eye blink
single_blink_ms == 300

baseline_size == 30

Ears == [open |-> 300, closed |-> 30]

\* EyeData as the tracker reports it: the face flag and the two ratios
EyeDatas ==
    {[face_detected |-> FALSE, left_eye_aspect_ratio |-> 0, right_eye_aspect_ratio |-> 0]}
      \cup { [face_detected |-> TRUE, left_eye_aspect_ratio |-> l, right_eye_aspect_ratio |-> r] :
                l \in {Ears.open, Ears.closed}, r \in {Ears.open, Ears.closed} }

NoneState == [expression |-> "none", duration |-> 0, start_time |-> 0]

NoWink == [eye |-> "none", since |-> 0, clean |-> FALSE]

NoSeen == [faces |-> 0, left |-> 0, right |-> 0, eyes |-> "none",
           both_since |-> -1, wink |-> NoWink, classified_at |-> -1]

NoObs == [op |-> "none", face |-> FALSE, processed |-> FALSE,
          result |-> "none", returned |-> "none", emitted |-> FALSE,
          latch_changed |-> FALSE, other_changed |-> FALSE,
          both_for |-> -1, wink_eye |-> "none", wink_for |-> 0,
          wink_clean |-> FALSE, since_class |-> -1]

\* which eyes an observation shows closed
eyes_of(eye_data) ==
    IF eye_data.left_eye_aspect_ratio = Ears.closed
    THEN IF eye_data.right_eye_aspect_ratio = Ears.closed THEN "both" ELSE "left"
    ELSE IF eye_data.right_eye_aspect_ratio = Ears.closed THEN "right" ELSE "open"

\* the closed eyes among the samples collected for the baseline
closed_samples(samples) ==
    ((samples.n * Ears.open - samples.left)
        + (samples.n * Ears.open - samples.right))
      \div (Ears.open - Ears.closed)

\* the samples update_baseline holds after one more observation
appended_sample(samples, eye_data) ==
    IF samples.n < baseline_size
    THEN [n |-> samples.n + 1,
          left |-> samples.left + eye_data.left_eye_aspect_ratio,
          right |-> samples.right + eye_data.right_eye_aspect_ratio]
    ELSE samples

\* np.mean of one ratio of the samples
mean(total, n) == total \div n

\* ear < baseline * blink_threshold
closed(ear, baseline) == ear * 100 < baseline * blink_threshold_pct

\* a both-eye blink that counts as long only beyond long_blink_duration
both_blink_beyond(duration) ==
    IF duration > long_blink_ms THEN "blink_both_long" ELSE "blink_both"

\* the classification of a both-eye blink of the given duration
both_blink(duration) ==
    IF duration >= long_blink_ms THEN "blink_both_long" ELSE "blink_both"

\* _detect_blink: the latches and the timer it leaves and what it returns
_detect_blink(eye_data, current_time) ==
    LET left_closed == closed(eye_data.left_eye_aspect_ratio, baseline_left_ear)
        right_closed == closed(eye_data.right_eye_aspect_ratio, baseline_right_ear)
        both_closed == left_closed /\ right_closed
        start == both_closed /\ ~both_eyes_closed
        both1 == both_eyes_closed \/ start
        time1 == IF start THEN current_time ELSE blink_start_time
        left_start == left_closed /\ ~left_eye_closed /\ ~right_closed
        left1 == left_eye_closed \/ left_start
        time2 == IF left_start THEN current_time ELSE time1
        left_end == left1 /\ ~left_closed
        left2 == left1 /\ ~left_end
        time3 == IF left_end THEN 0 ELSE time2
        right_start == right_closed /\ ~right_eye_closed /\ ~left_closed
        right1 == right_eye_closed \/ right_start
        time4 == IF right_start THEN current_time ELSE time3
        right_end == right1 /\ ~right_closed
        right2 == right1 /\ ~right_end
        time5 == IF right_end THEN 0 ELSE time4
    IN  IF both1 /\ ~both_closed
        THEN [left |-> left_eye_closed, right |-> right_eye_closed,
              both |-> FALSE, time |-> 0,
              expression |-> both_blink(current_time - time1)]
        ELSE IF left_end /\ current_time - time2 < single_blink_ms
        THEN [left |-> left2, right |-> right_eye_closed,
              both |-> both1, time |-> time3, expression |-> "blink_left"]
        ELSE IF right_end /\ current_time - time4 < single_blink_ms
        THEN [left |-> left2, right |-> right2,
              both |-> both1, time |-> time5, expression |-> "blink_right"]
        ELSE [left |-> left2, right |-> right2,
              both |-> both1, time |-> time5, expression |-> "none"]

\* detect_expression without its face check
detect_stage_faceless(eye_data) ==
    IF ~baseline_initialized THEN "baseline"
    ELSE IF now - last_blink_time < blink_cooldown_ms THEN "cooldown"
    ELSE "detect"

\* detect_expression without its baseline check
detect_stage_unready(eye_data) ==
    IF ~eye_data.face_detected THEN "no_face"
    ELSE IF now - last_blink_time < blink_cooldown_ms THEN "cooldown"
    ELSE "detect"

\* detect_expression without its cooldown check
detect_stage_eager(eye_data) ==
    IF ~eye_data.face_detected THEN "no_face"
    ELSE IF ~baseline_initialized THEN "baseline"
    ELSE "detect"

\* how far detect_expression gets with an observation
detect_stage(eye_data) ==
    IF ~eye_data.face_detected THEN "no_face"
    ELSE IF ~baseline_initialized THEN "baseline"
    ELSE IF now - last_blink_time < blink_cooldown_ms THEN "cooldown"
    ELSE "detect"

\* the observations so far, with one more
observed(eye_data, processed, classified) ==
    LET eyes == eyes_of(eye_data)
        counted == seen.faces < baseline_size
    IN  IF ~eye_data.face_detected THEN seen
        ELSE [faces |-> IF seen.faces > baseline_size THEN seen.faces
                        ELSE seen.faces + 1,
              left |-> IF counted THEN seen.left + eye_data.left_eye_aspect_ratio
                       ELSE seen.left,
              right |-> IF counted THEN seen.right + eye_data.right_eye_aspect_ratio
                        ELSE seen.right,
              eyes |-> eyes,
              both_since |-> IF eyes # "both" THEN -1
                             ELSE IF seen.eyes = "both" THEN seen.both_since
                             ELSE IF processed THEN now ELSE -1,
              wink |-> IF eyes \notin {"left", "right"} THEN NoWink
                       ELSE IF seen.wink.eye = eyes
                       THEN [seen.wink EXCEPT !.clean = @ /\ processed]
                       ELSE [eye |-> eyes, since |-> now,
                             clean |-> processed /\ seen.eyes = "open"],
              classified_at |-> IF classified THEN now
                                ELSE seen.classified_at]

\* what one detect_expression call did, for the histories
observation(name, eye_data, processed, result, emits) ==
    LET eyes == eyes_of(eye_data)
        face == eye_data.face_detected
        ended == face /\ seen.wink.eye # "none"
                   /\ eyes \in {"open", "left", "right"}
                   /\ eyes # seen.wink.eye
    IN  [op |-> name, face |-> face, processed |-> processed,
         result |-> result,
         returned |-> current_state'.expression,
         emitted |-> emits /\ current_state'.expression # "none",
         latch_changed |->
             <<left_eye_closed', right_eye_closed', both_eyes_closed',
               blink_start_time'>>
               # <<left_eye_closed, right_eye_closed, both_eyes_closed,
                   blink_start_time>>,
         other_changed |->
             <<last_blink_time', baseline_samples', baseline_initialized',
               baseline_left_ear', baseline_right_ear'>>
               # <<last_blink_time, baseline_samples, baseline_initialized,
                   baseline_left_ear, baseline_right_ear>>,
         both_for |-> IF face /\ eyes # "both" /\ seen.both_since >= 0
                      THEN now - seen.both_since ELSE -1,
         wink_eye |-> IF ended THEN seen.wink.eye ELSE "none",
         wink_for |-> IF ended THEN now - seen.wink.since ELSE 0,
         wink_clean |-> ended /\ seen.wink.clean /\ processed,
         since_class |-> IF seen.classified_at < 0 THEN -1
                         ELSE now - seen.classified_at]

\* an observation the exploration feeds: while the baseline is collected
\* at most MaxBaselineBlinks closed eyes
admitted(eye_data) ==
    \/ baseline_initialized
    \/ ~eye_data.face_detected
    \/ eyes_of(eye_data) = "open"
    \/ closed_samples(baseline_samples) < MaxBaselineBlinks

update_baseline(eye_data) ==
    IF baseline_samples.n < baseline_size
    THEN /\ baseline_samples' = appended_sample(baseline_samples, eye_data)
         /\ UNCHANGED <<baseline_left_ear, baseline_right_ear,
                        baseline_initialized>>
    ELSE /\ baseline_left_ear' = mean(baseline_samples.left, baseline_samples.n)
         /\ baseline_right_ear' =
              mean(baseline_samples.right, baseline_samples.n)
         /\ baseline_initialized' = TRUE
         /\ UNCHANGED baseline_samples

\* detect_expression called by `name`; emits says whether the caller emits
\* expression_detected for what is returned
detected(name, eye_data, emits) ==
    LET stage == detect_stage(eye_data)
        blink == _detect_blink(eye_data, now)
        found == IF stage = "detect" THEN blink.expression ELSE "none"
    IN  /\ admitted(eye_data)
        /\ IF stage = "no_face"
           THEN /\ current_state' = NoneState
                /\ UNCHANGED <<last_blink_time, baseline_left_ear,
                               baseline_right_ear, baseline_samples,
                               baseline_initialized, left_eye_closed,
                               right_eye_closed, both_eyes_closed,
                               blink_start_time>>
           ELSE IF stage = "baseline"
           THEN /\ update_baseline(eye_data)
                /\ UNCHANGED <<current_state, last_blink_time,
                               left_eye_closed, right_eye_closed,
                               both_eyes_closed, blink_start_time>>
           ELSE IF stage = "cooldown"
           THEN UNCHANGED engineVars
           ELSE /\ left_eye_closed' = blink.left
                /\ right_eye_closed' = blink.right
                /\ both_eyes_closed' = blink.both
                /\ blink_start_time' = blink.time
                /\ IF found # "none"
                   THEN /\ current_state' =
                             [expression |-> found,
                              duration |-> IF blink.time > 0
                                           THEN now - blink.time ELSE 0,
                              start_time |-> now]
                        /\ last_blink_time' = now
                   ELSE UNCHANGED <<current_state, last_blink_time>>
                /\ UNCHANGED <<baseline_left_ear, baseline_right_ear,
                               baseline_samples, baseline_initialized>>
        /\ seen' = observed(eye_data, stage = "detect", found # "none")
        /\ last_obs' = observation(name, eye_data, stage = "detect",
                                   found, emits)
        /\ UNCHANGED <<gateVars, mapperVars, calVars, pipelineVars>>

detect_expression(eye_data) == detected("detect_expression", eye_data, FALSE)

\* one turn of ProcessingThread.run on a frame the tracker has processed
run(eye_data) ==
    IF eye_data.face_detected
    THEN detected("run", eye_data, TRUE)
    ELSE /\ last_obs' = [NoObs EXCEPT !.op = "run"]
         /\ UNCHANGED <<engineVars, seen, gateVars, mapperVars, calVars, pipelineVars>>

ExpressionEngine_reset ==
    /\ current_state' = NoneState
    /\ left_eye_closed' = FALSE
    /\ right_eye_closed' = FALSE
    /\ both_eyes_closed' = FALSE
    /\ blink_start_time' = 0
    /\ baseline_samples' = [n |-> 0, left |-> 0, right |-> 0]
    /\ baseline_initialized' = FALSE
    /\ seen' = [NoSeen EXCEPT !.classified_at = seen.classified_at]
    /\ last_obs' = NoObs
    /\ UNCHANGED <<last_blink_time, baseline_left_ear, baseline_right_ear,
                   gateVars, mapperVars, calVars, pipelineVars>>

\* the camera delivers the next frame FrameMs later
next_frame ==
    /\ now < StartTime + MaxFrameTime * FrameMs
    /\ now' = now + FrameMs
    /\ last_req' = NoReq
    /\ last_obs' = NoObs
    /\ UNCHANGED <<safetyVars, histVars, ctrlVars, mapperVars, engineVars,
                   seen, calVars, pipelineVars>>

----------------------------------------------------------------------------
(* Calibrator (src/calibration/calibrator.py).  The two callbacks are      *)
(* installed; last_cal records which of them a call fired.                 *)

MaxCalTime == 6    \* SpecCalibrator: the clock runs for this many ticks
MaxSamples == 1    \* samples collected for one target

\* config['points']
num_points == 5

\* config['duration_per_point_ms']
duration_per_point == 200

CalibrationState ==
    {"idle", "intro", "positioning", "collecting", "computing", "complete",
     "failed"}

Irises == {"none", "iris"}

NoCal == [op |-> "none", from |-> "idle", changed |-> FALSE,
          returned |-> FALSE, target_complete |-> -1,
          calibration_complete |-> FALSE, index |-> 0, dwell |-> -1,
          completed |-> {}]

NoActivation == [index |-> -1, at |-> 0]

CalibrationTarget(position) ==
    [position |-> position, duration_ms |-> duration_per_point,
     samples_collected |-> 0, completed |-> FALSE]

\* the 3x3 grid inside margins of a tenth of the screen, row by row; for five
\* points its corners and its centre
_generate_calibration_points ==
    LET margin_x == screen_width \div 10
        margin_y == screen_height \div 10
        rows == 3
        cols == 3
        grid == [i \in 1..(rows * cols) |->
                   CalibrationTarget(
                     <<margin_x + (((i - 1) % cols)
                          * (screen_width - 2 * margin_x)) \div (cols - 1),
                       margin_y + (((i - 1) \div cols)
                          * (screen_height - 2 * margin_y)) \div (rows - 1)>>)]
        indices == <<0, 2, 4, 6, 8>>
    IN  IF num_points = 5
        THEN [i \in 1..Len(indices) |-> grid[indices[i] + 1]]
        ELSE grid

\* what one Calibrator call did, for the histories
called(name, returned, target_complete, calibration_complete) ==
    [op |-> name, from |-> state,
     changed |-> <<state', targets', current_target_index'>>
                   # <<state, targets, current_target_index>>,
     returned |-> returned, target_complete |-> target_complete,
     calibration_complete |-> calibration_complete,
     index |-> current_target_index,
     dwell |-> IF activation.index = current_target_index
               THEN now - activation.at ELSE -1,
     completed |-> IF Len(targets') # Len(targets) THEN {}
                   ELSE {i \in 1..Len(targets) :
                           targets'[i].completed /\ ~targets[i].completed}]

start ==
    /\ targets' = _generate_calibration_points
    /\ state' = "intro"
    /\ current_target_index' = 0
    /\ UNCHANGED target_start_time
    /\ activation' = NoActivation
    /\ last_cal' = called("start", TRUE, -1, FALSE)
    /\ UNCHANGED <<gateVars, mapperVars, exprVars, pipelineVars>>

\* a next_target that leaves the timer of the previous target running
activated_stale(index) ==
    IF index >= Len(targets)
    THEN [state |-> "computing", target_start_time |-> target_start_time]
    ELSE [state |-> "collecting", target_start_time |-> target_start_time]

\* the state and the timer next_target leaves when the index is `index`
activated(index) ==
    IF index >= Len(targets)
    THEN [state |-> "computing", target_start_time |-> target_start_time]
    ELSE [state |-> "collecting", target_start_time |-> now]

next_target ==
    /\ state' = activated(current_target_index).state
    /\ target_start_time' = activated(current_target_index).target_start_time
    /\ UNCHANGED <<targets, current_target_index>>
    /\ activation' = IF current_target_index < Len(targets)
                     THEN [index |-> current_target_index, at |-> now]
                     ELSE activation
    /\ last_cal' = called("next_target",
                          current_target_index < Len(targets), -1, FALSE)
    /\ UNCHANGED <<gateVars, mapperVars, exprVars, pipelineVars>>

collect_sample(left_iris, right_iris) ==
    IF \/ state # "collecting"
       \/ current_target_index >= Len(targets)
       \/ left_iris = "none" \/ right_iris = "none"
    THEN /\ UNCHANGED <<state, current_target_index, targets,
                        target_start_time, activation>>
         /\ last_cal' = called("collect_sample", FALSE, -1, FALSE)
         /\ UNCHANGED <<gateVars, mapperVars, exprVars, pipelineVars>>
    ELSE LET target == targets[current_target_index + 1]
             elapsed_ms == now - target_start_time
             done == elapsed_ms >= target.duration_ms
             index == current_target_index + 1
         IN  /\ target.samples_collected < MaxSamples
             /\ targets' =
                  [targets EXCEPT ![current_target_index + 1] =
                     [target EXCEPT
                        !.samples_collected = @ + 1,
                        !.completed = @ \/ done]]
             /\ IF done
                THEN /\ current_target_index' = index
                     /\ state' = activated(index).state
                     /\ target_start_time' =
                          activated(index).target_start_time
                     /\ activation' = IF index < Len(targets)
                                      THEN [index |-> index, at |-> now]
                                      ELSE activation
                     /\ last_cal' = called("collect_sample",
                                           index >= Len(targets),
                                           current_target_index, FALSE)
                ELSE /\ UNCHANGED <<state, current_target_index,
                                    target_start_time, activation>>
                     /\ last_cal' = called("collect_sample", FALSE, -1, FALSE)
             /\ UNCHANGED <<gateVars, mapperVars, exprVars, pipelineVars>>

\* a count that misses every completed target
completed_targets_none ==
    Cardinality({i \in 1..Len(targets) : FALSE})

\* sum(1 for t in self.targets if t.completed)
completed_targets ==
    Cardinality({i \in 1..Len(targets) : targets[i].completed})

Calibrator_compute_calibration ==
    /\ UNCHANGED <<current_target_index, targets, target_start_time,
                   activation>>
    /\ IF state # "computing"
       THEN /\ UNCHANGED state
            /\ last_cal' = called("compute_calibration", FALSE, -1, FALSE)
       ELSE IF completed_targets < Len(targets)
       THEN /\ state' = "failed"
            /\ last_cal' = called("compute_calibration", FALSE, -1, FALSE)
       ELSE /\ state' = "complete"
            /\ last_cal' = called("compute_calibration", TRUE, -1, TRUE)
    /\ UNCHANGED <<gateVars, mapperVars, exprVars, pipelineVars>>

\* a reset that leaves the targets in place
Calibrator_reset_keeping_targets ==
    /\ state' = "idle"
    /\ current_target_index' = 0
    /\ UNCHANGED <<targets, target_start_time>>
    /\ activation' = NoActivation
    /\ last_cal' = called("reset", TRUE, -1, FALSE)
    /\ UNCHANGED <<gateVars, mapperVars, exprVars, pipelineVars>>

Calibrator_reset ==
    /\ state' = "idle"
    /\ current_target_index' = 0
    /\ targets' = <<>>
    /\ UNCHANGED target_start_time
    /\ activation' = NoActivation
    /\ last_cal' = called("reset", TRUE, -1, FALSE)
    /\ UNCHANGED <<gateVars, mapperVars, exprVars, pipelineVars>>

----------------------------------------------------------------------------
(* CameraThread and Camera (src/core/camera.py).  The acquisition thread    *)
(* and the callers of get_frame (the camera feed timer of the UI thread,   *)
(* ProcessingThread.run) take their steps in any order.  Frames are        *)
(* numbered in the order they are read; 0 stands for None.                 *)

MaxFrames == 3     \* frames the camera delivers in one run

\* Queue(maxsize=2)
queue_maxsize == 2

max_failures == 30

Consumers == {"ui", "processing"}

\* cap.read(): no frame, a frame of size 0, a frame
ReadResults == {"failed", "empty", "frame"}

\* a get_frame call: where it stands, what get_nowait() last gave it, and,
\* where the calls are traced, the frame the caller's previous call returned
Getter == [pc |-> "idle", frame |-> 0, last |-> 0]

NoGet == [consumer |-> "none", returned |-> 0, removed |-> 0, previous |-> 0]

\* frames read, failed reads in a row, whether the loop gave up, whether a
\* stop() reached a live thread, and what the last step lost or dropped
NoCamera == [frames |-> 0, failed_reads |-> 0, aborted |-> FALSE,
             stopping |-> FALSE, lost |-> "none", dropped |-> "none"]

\* a queue that never reports itself full
full_never(queue) == FALSE

\* Queue.full()
full(queue) ==
    Len(queue) >= queue_maxsize

\* a loop that gives up one failure early
exceeded_early(failures) == failures >= max_failures

\* consecutive_failures > max_failures
exceeded(failures) ==
    failures > max_failures

\* the 'running' entry of Camera.get_stats
get_stats_running == thread /\ running

\* Camera.start creates the CameraThread and starts it
Camera_start ==
    /\ camera_pc \in {"none", "exited"}
    /\ thread' = TRUE
    /\ running' = FALSE
    /\ frame_queue' = <<>>
    /\ consecutive_failures' = 0
    /\ camera_pc' = "created"
    /\ camera' = [NoCamera EXCEPT !.frames = camera.frames]
    /\ last_get' = NoGet
    /\ UNCHANGED <<frame, latest_frame, getters>>
    /\ UNCHANGED <<gateVars, mapperVars, exprVars, calVars, readerVars,
                   appVars>>

\* Camera.stop: CameraThread.stop, then the thread is forgotten
Camera_stop ==
    /\ thread' = FALSE
    /\ running' = IF thread THEN FALSE ELSE running
    /\ camera' = [camera EXCEPT
                    !.stopping = @ \/ (thread /\ camera_pc # "exited"),
                    !.lost = "none", !.dropped = "none"]
    /\ last_get' = NoGet
    /\ UNCHANGED <<frame_queue, consecutive_failures, camera_pc, frame,
                   latest_frame, getters>>
    /\ UNCHANGED <<gateVars, mapperVars, exprVars, calVars, readerVars,
                   appVars>>

\* one step of CameraThread.run; `result` is what cap.read() gives when the
\* step is a read
CameraThread_run(result) ==
    LET step == [camera EXCEPT !.lost = "none", !.dropped = "none"]
    IN
    /\ \/ /\ camera_pc = "created"
          /\ result = "failed"          \* the device cannot be opened
          /\ camera_pc' = "exited"
          /\ camera' = step
          /\ UNCHANGED <<running, frame_queue, consecutive_failures, frame>>
       \/ /\ camera_pc = "created"
          /\ result # "failed"
          /\ running' = TRUE
          /\ consecutive_failures' = 0
          /\ camera_pc' = "loop"
          /\ camera' = step
          /\ UNCHANGED <<frame_queue, frame>>
       \/ /\ camera_pc = "loop"
          /\ ~running
          /\ camera_pc' = "exited"
          /\ camera' = step
          /\ UNCHANGED <<running, frame_queue, consecutive_failures, frame>>
       \/ /\ camera_pc = "loop"
          /\ running
          /\ result = "failed"
          /\ consecutive_failures' = consecutive_failures + 1
          /\ camera_pc' = IF exceeded(consecutive_failures + 1)
                          THEN "exited" ELSE "loop"
          /\ camera' = [step EXCEPT
                          !.failed_reads = @ + 1,
                          !.aborted = exceeded(consecutive_failures + 1)]
          /\ UNCHANGED <<running, frame_queue, frame>>
       \/ /\ camera_pc = "loop"
          /\ running
          /\ result = "empty"
          /\ consecutive_failures' = 0
          /\ camera' = [step EXCEPT !.failed_reads = 0, !.lost = "empty"]
          /\ UNCHANGED <<running, frame_queue, frame, camera_pc>>
       \/ /\ camera_pc = "loop"
          /\ running
          /\ result = "frame"
          /\ camera.frames < MaxFrames
          /\ consecutive_failures' = 0
          /\ frame' = camera.frames + 1
          /\ camera_pc' = "full"
          /\ camera' = [step EXCEPT !.failed_reads = 0, !.frames = @ + 1]
          /\ UNCHANGED <<running, frame_queue>>
       \/ /\ camera_pc = "full"
          /\ camera_pc' = IF full(frame_queue) THEN "get_nowait"
                          ELSE "put_nowait"
          /\ camera' = step
          /\ UNCHANGED <<running, frame_queue, consecutive_failures, frame>>
       \/ /\ camera_pc = "get_nowait"
          /\ frame_queue' = IF frame_queue = <<>> THEN frame_queue
                            ELSE Tail(frame_queue)
          /\ camera_pc' = "put_nowait"
          /\ camera' = [step EXCEPT
                          !.dropped =
                             IF frame_queue = <<>> THEN "none"
                             ELSE IF \A i \in 1..Len(frame_queue) :
                                        frame_queue[1] <= frame_queue[i]
                             THEN "oldest" ELSE "other"]
          /\ UNCHANGED <<running, consecutive_failures, frame>>
       \/ /\ camera_pc = "put_nowait"
          /\ frame_queue' = IF Len(frame_queue) < queue_maxsize
                            THEN Append(frame_queue, frame)
                            ELSE frame_queue
          /\ frame' = 0
          /\ camera_pc' = "loop"
          /\ camera' = [step EXCEPT
                          !.lost = IF Len(frame_queue) < queue_maxsize
                                   THEN "none" ELSE "full"]
          /\ UNCHANGED <<running, consecutive_failures>>
    /\ last_get' = NoGet
    /\ UNCHANGED <<thread, latest_frame, getters>>
    /\ UNCHANGED <<gateVars, mapperVars, exprVars, calVars, readerVars,
                   appVars>>

\* one step of a Camera.get_frame call of consumer c; a traced call
\* remembers the frame it returns
get_frame_step(c, traced) ==
    LET me == getters[c]
        returns(value) ==
            /\ getters' = [getters EXCEPT
                              ![c] = [Getter EXCEPT
                                        !.last = IF value = 0 \/ ~traced
                                                 THEN me.last
                                                 ELSE value]]
            /\ last_get' = [consumer |-> c, returned |-> value,
                            removed |-> me.frame, previous |-> me.last]
            /\ UNCHANGED <<frame_queue, latest_frame>>
    IN  /\ \/ /\ me.pc = "idle"
              /\ IF ~thread \/ ~running
                 THEN returns(0)
                 ELSE /\ getters' = [getters EXCEPT ![c].pc = "empty"]
                      /\ last_get' = NoGet
                      /\ UNCHANGED <<frame_queue, latest_frame>>
           \/ /\ me.pc = "empty"
              /\ IF ~thread \/ frame_queue = <<>>
                 THEN returns(latest_frame)
                 ELSE /\ getters' = [getters EXCEPT ![c].pc = "get_nowait"]
                      /\ last_get' = NoGet
                      /\ UNCHANGED <<frame_queue, latest_frame>>
           \/ /\ me.pc = "get_nowait"
              /\ IF ~thread \/ frame_queue = <<>>
                 THEN returns(latest_frame)
                 ELSE /\ getters' = [getters EXCEPT
                                       ![c] = [pc |-> "store",
                                               frame |-> Head(frame_queue),
                                               last |-> me.last]]
                      /\ frame_queue' = Tail(frame_queue)
                      /\ last_get' = NoGet
                      /\ UNCHANGED latest_frame
           \/ /\ me.pc = "store"
              /\ latest_frame' = me.frame
              /\ getters' = [getters EXCEPT ![c].pc = "empty"]
              /\ last_get' = NoGet
              /\ UNCHANGED frame_queue
        /\ UNCHANGED <<thread, running, consecutive_failures, camera_pc,
                       frame, camera>>
        /\ UNCHANGED <<gateVars, mapperVars, exprVars, calVars, readerVars,
                   appVars>>

get_frame(c) == get_frame_step(c, FALSE)

\* the same call, traced
get_frame_traced(c) == get_frame_step(c, TRUE)

----------------------------------------------------------------------------
(* MainWindow and its ProcessingThread (src/ui/app.py): tracking is        *)
(* started and stopped, and a calibration is run, by the handlers of the   *)
(* UI thread, one at a time, while the processing thread takes its own     *)
(* steps.  The calibration dialog is modal.  What the handlers do to the   *)
(* gaze mapper and to the widgets is left out here.                        *)

\* the nine entries of `points` in _run_calibration_sequence
points_len == 9

\* is_running, processing_thread, the thread's place and its running flag,
\* where the UI thread stands, current_point, len(calibration_data), and
\* how the calibration that has just finished ended
NoApp ==
    [is_running |-> FALSE, processing_thread |-> "none", pc |-> "none",
     running |-> FALSE, ui |-> "idle", current_point |-> 0,
     calibration_data |-> 0, finished |-> "none"]

\* QThread.isRunning(): started, and run() has not returned
isRunning == app.pc \in {"started", "loop"}

\* ProcessingThread.run: running = True, then the loop until it reads
\* running False; a turn of the loop changes nothing here
ProcessingThread_run ==
    /\ \/ /\ app.pc = "started"
          /\ app' = [app EXCEPT !.running = TRUE, !.pc = "loop"]
       \/ /\ app.pc = "loop"
          /\ ~app.running
          /\ app' = [app EXCEPT !.pc = "finished"]
    /\ UNCHANGED <<gateVars, mapperVars, exprVars, calVars, cameraVars,
                   readerVars>>

\* what _start_tracking makes of the window `w`
start_tracking(w) ==
    IF w.is_running THEN w
    ELSE [w EXCEPT !.processing_thread = "thread", !.pc = "started",
                   !.running = FALSE, !.is_running = TRUE]

_start_tracking ==
    /\ app.ui = "idle"
    /\ app' = start_tracking([app EXCEPT !.finished = "none"])
    /\ UNCHANGED <<gateVars, mapperVars, exprVars, calVars, cameraVars,
                   readerVars>>

\* _stop_tracking: stop(), then wait() until run() has returned
_stop_tracking ==
    /\ \/ /\ app.ui = "idle"
          /\ app' = IF ~app.is_running
                    THEN [app EXCEPT !.finished = "none"]
                    ELSE IF app.processing_thread = "thread"
                    THEN [app EXCEPT !.running = FALSE, !.ui = "stop_wait",
                                     !.finished = "none"]
                    ELSE [app EXCEPT !.is_running = FALSE,
                                     !.finished = "none"]
       \/ /\ app.ui = "stop_wait"
          /\ ~isRunning
          /\ app' = [app EXCEPT !.processing_thread = "none",
                                !.is_running = FALSE, !.ui = "idle"]
    /\ UNCHANGED <<gateVars, mapperVars, exprVars, calVars, cameraVars,
                   readerVars>>

\* _start_calibration: stop() and wait(1000), which returns when run() has
\* returned or the second is over, then _run_calibration_sequence up to
\* dialog.exec(): the first next_point() has collected its point or not
_start_calibration(sampled) ==
    /\ \/ /\ app.ui = "idle"
          /\ app' = IF ~app.is_running
                    THEN [app EXCEPT !.finished = "none"]
                    ELSE IF app.processing_thread = "thread" /\ isRunning
                    THEN [app EXCEPT !.running = FALSE, !.ui = "cal_wait",
                                     !.finished = "none"]
                    ELSE [app EXCEPT !.ui = "cal_wait", !.finished = "none"]
       \/ /\ app.ui = "cal_wait"
          /\ app' = [app EXCEPT !.ui = "dialog", !.current_point = 1,
                                !.calibration_data =
                                    IF sampled THEN 1 ELSE 0]
    /\ UNCHANGED <<gateVars, mapperVars, exprVars, calVars, cameraVars,
                   readerVars>>

\* the window after _finish_calibration(dialog, success)
_finish_calibration(success) ==
    start_tracking(
        [app EXCEPT !.ui = "idle",
                    !.finished =
                        IF ~success THEN "skipped"
                        ELSE IF app.calibration_data >= min_calibration_points
                        THEN "completed"
                        ELSE "insufficient"])

\* the space key: next_point()
next_point(sampled) ==
    /\ app.ui = "dialog"
    /\ app' = IF app.current_point >= points_len
              THEN _finish_calibration(TRUE)
              ELSE [app EXCEPT !.current_point = @ + 1,
                               !.calibration_data =
                                   IF sampled THEN @ + 1 ELSE @]
    /\ UNCHANGED <<gateVars, mapperVars, exprVars, calVars, cameraVars,
                   readerVars>>

\* the escape key and the skip button
skip_calibration ==
    /\ app.ui = "dialog"
    /\ app' = _finish_calibration(FALSE)
    /\ UNCHANGED <<gateVars, mapperVars, exprVars, calVars, cameraVars,
                   readerVars>>

----------------------------------------------------------------------------
(* GazeMapper.gaze_to_screen called by ProcessingThread.run while the UI    *)
(* thread recalibrates, loads a profile or resets the mapper.  A           *)
(* coordinate is a fraction <<numerator, denominator>> in lowest terms.    *)

\* the gaze vectors the call is given
Gazes == {<<-1, -1>>, <<1, 1>>}

NoMapping == [pc |-> "idle", gaze |-> <<0, 0>>, operand |-> NullMatrix,
              latest |-> NullMatrix, screen_pos |-> <<>>]

\* a clip that lets every value through
clip_unbounded(n, d, hi) ==
    <<n \div gcd(abs(n), d), d \div gcd(abs(n), d)>>

\* np.clip(n / d, 0, hi)
clip(n, d, hi) ==
    IF n < 0 THEN <<0, 1>>
    ELSE IF n > hi * d THEN <<hi, 1>>
    ELSE <<n \div gcd(n, d), d \div gcd(n, d)>>

\* A @ [gaze[0], gaze[1], 1.0], clamped to the screen
clamped(A, gaze) ==
    LET h == homogeneous(gaze)
        dot(k) == A.num[k][1] * h[1] + A.num[k][2] * h[2] + A.num[k][3] * h[3]
    IN  <<clip(dot(1), A.den, screen_width), clip(dot(2), A.den, screen_height)>>

\* a product that takes its second row from the array assigned meanwhile
screen_pos_torn(loaded, current, gaze) ==
    <<clamped(loaded, gaze)[1], clamped(current, gaze)[2]>>

\* the product works on the array self.transform_matrix referred to when
\* the attribute was loaded, whatever has been assigned to it since
screen_pos(loaded, current, gaze) ==
    clamped(loaded, gaze)

\* one step of gaze_to_screen(gaze): load self.transform_matrix, then
\* multiply, clamp and return
gaze_to_screen(gaze) ==
    /\ \/ /\ mapping.pc \in {"idle", "returned"}
          /\ mapping' = [NoMapping EXCEPT !.pc = "loaded", !.gaze = gaze,
                                          !.operand = transform_matrix]
       \/ /\ mapping.pc = "loaded"
          /\ gaze = mapping.gaze
          /\ mapping' = [mapping EXCEPT
                           !.pc = "returned",
                           !.latest = transform_matrix,
                           !.screen_pos = screen_pos(mapping.operand,
                                                     transform_matrix, gaze)]
    /\ UNCHANGED <<gaze_estimate, smoother, last_smooth>>
    /\ UNCHANGED <<gateVars, mapperVars, exprVars, calVars, cameraVars,
                   appVars>>

----------------------------------------------------------------------------
(* GazeMapper.estimate_gaze on any iris positions inside the frame, either  *)
(* of which may be absent.  A component is a fraction                      *)
(* <<numerator, denominator>> in lowest terms.                             *)

FrameWidth == 4      \* frame_width of the frames estimate_gaze is given
FrameHeight == 1     \* frame_height of the frames estimate_gaze is given

\* None, told apart from every position
None == <<>>

\* the iris centres the tracker reports: a point of the frame or None
IrisCenters ==
    {None} \cup {<<x, y>> : x \in 0..FrameWidth, y \in 0..FrameHeight}

fraction(n, d) == <<n \div gcd(abs(n), d), d \div gcd(abs(n), d)>>

\* a normalisation that leaves out the factor 2
normalized_position_unscaled(pos, dimension) ==
    fraction(pos - dimension, dimension)

\* (pos / dimension) * 2 - 1
normalized_position(pos, dimension) ==
    fraction(2 * pos - dimension, dimension)

\* np.mean of two components
mean_of(a, b) == fraction(a[1] * b[2] + b[1] * a[2], 2 * a[2] * b[2])

estimated_gaze(left_iris, right_iris, frame_width, frame_height, dominance) ==
    LET norm(iris) == <<normalized_position(iris[1], frame_width),
                        normalized_position(iris[2], frame_height)>>
        normalized_positions ==
            (IF left_iris # None THEN <<norm(left_iris)>> ELSE <<>>)
              \o (IF right_iris # None THEN <<norm(right_iris)>> ELSE <<>>)
    IN  IF left_iris = None /\ right_iris = None THEN None
        ELSE IF Len(normalized_positions) = 2
        THEN IF dominance = "left" THEN normalized_positions[1]
             ELSE IF dominance = "right" THEN normalized_positions[2]
             ELSE <<mean_of(normalized_positions[1][1],
                            normalized_positions[2][1]),
                    mean_of(normalized_positions[1][2],
                            normalized_positions[2][2])>>
        ELSE normalized_positions[1]

\* the gaze set_calibration_data computes for one entry, as fractions:
\* (avg_iris / 640) - 1 and (avg_iris / 360) - 1 of the averaged irises
norm_gaze_xy(left_iris, right_iris) ==
    <<fraction(left_iris[1] + right_iris[1] - 2 * half_frame[1],
               2 * half_frame[1]),
      fraction(left_iris[2] + right_iris[2] - 2 * half_frame[2],
               2 * half_frame[2])>>

\* the irises of one frame of frame_size, as set_calibration_data turns
\* them into a gaze for the fit and as estimate_gaze does while tracking
set_calibration_data_point(left_iris, right_iris, dominance) ==
    /\ gaze_estimate' =
         [left_iris |-> left_iris, right_iris |-> right_iris,
          dominance |-> dominance,
          gaze |-> estimated_gaze(left_iris, right_iris, frame_size[1],
                                  frame_size[2], dominance),
          norm_gaze |-> norm_gaze_xy(left_iris, right_iris)]
    /\ UNCHANGED <<mapping, smoother, last_smooth>>
    /\ UNCHANGED <<gateVars, mapperVars, exprVars, calVars, cameraVars,
                   appVars>>

\* ProcessingThread.run hands the iris centres of a frame to estimate_gaze
GazeMapper_estimate_gaze(left_iris, right_iris, dominance) ==
    /\ gaze_estimate' =
         [left_iris |-> left_iris, right_iris |-> right_iris,
          dominance |-> dominance,
          gaze |-> estimated_gaze(left_iris, right_iris, FrameWidth,
                                  FrameHeight, dominance),
          norm_gaze |-> None]
    /\ UNCHANGED <<mapping, smoother, last_smooth>>
    /\ UNCHANGED <<gateVars, mapperVars, exprVars, calVars, cameraVars,
                   appVars>>

----------------------------------------------------------------------------
(* CursorSmoother and its filters (src/core/smoother.py).  Positions are    *)
(* whole pixels and every quotient is rounded down, where numpy holds      *)
(* floats.  F, H, Q, R and the initial P of the Kalman filter treat the    *)
(* two axes alike and apart, so for each axis P stays                      *)
(* [[P[1], P[2]], [P[2], P[3]]]; P, Q and R are in 1/100.                  *)

MaxSmooths == 3     \* smooth calls explored in one run

\* deque(maxlen=5)
velocity_history_maxlen == 5

\* config['smoothing_factor'], default 0.3, in percent
smoothing_factor == 30

\* config['dead_zone_radius'], default 15
dead_zone_radius == 15

\* the screen the positions are on, and the raw positions handed to smooth:
\* the centre, in the dead zone, on its rim, a corner, left of the screen,
\* below it
screen_size == <<80, 60>>

RawPositions ==
    {<<40, 30>>, <<50, 35>>, <<49, 42>>, <<80, 60>>, <<-20, 30>>, <<60, 90>>}

\* the last operation, the smooth calls so far and since the smoother was
\* last constructed or reset, whether that was a reset, and the last call:
\* its input and result, and the center, history, input and result of the
\* apply call it made
NoSmooth == [op |-> "none", calls |-> 0, since_reset |-> 0,
             after_reset |-> FALSE, raw |-> None, position |-> None,
             center |-> None, velocity_history |-> <<>>, filtered |-> None,
             applied |-> None]

\* CursorSmoother.__init__
constructed(use_kalman) ==
    [use_kalman |-> use_kalman,
     ema |-> None,
     kalman |-> [state |-> <<0, 0, 0, 0>>, P |-> <<100000, 0, 100000>>,
                 initialized |-> FALSE],
     center |-> None,
     velocity_history |-> <<>>,
     last_position |-> None]

\* EMAFilter.update: the new self.value
EMAFilter_update(value, new_value) ==
    IF value = None THEN new_value
    ELSE [i \in 1..2 |-> (smoothing_factor * new_value[i]
                            + (100 - smoothing_factor) * value[i]) \div 100]

\* KalmanFilter.update with predict: the new state, P and initialized; the
\* position returned is the first two entries of the state
KalmanFilter_update(kalman, measurement) ==
    IF ~kalman.initialized
    THEN [state |-> <<measurement[1], measurement[2],
                      kalman.state[3], kalman.state[4]>>,
          P |-> kalman.P, initialized |-> TRUE]
    ELSE LET Q == 1
             R == 10
             predicted == <<kalman.state[1] + kalman.state[3],
                            kalman.state[2] + kalman.state[4],
                            kalman.state[3], kalman.state[4]>>
             Pp == <<kalman.P[1] + 2 * kalman.P[2] + kalman.P[3] + Q,
                     kalman.P[2] + kalman.P[3],
                     kalman.P[3] + Q>>
             y == <<measurement[1] - predicted[1],
                    measurement[2] - predicted[2]>>
             S == Pp[1] + R
         IN  [state |-> <<predicted[1] + (Pp[1] * y[1]) \div S,
                          predicted[2] + (Pp[1] * y[2]) \div S,
                          predicted[3] + (Pp[2] * y[1]) \div S,
                          predicted[4] + (Pp[2] * y[2]) \div S>>,
              P |-> <<(Pp[1] * R) \div S,
                      (Pp[2] * R) \div S,
                      Pp[3] - (Pp[2] * ((Pp[2] * 10000) \div S)) \div 10000>>,
              initialized |-> TRUE]

\* VelocityBasedSmoother.apply with acceleration_curve = 2, for which
\* distance_ratio ** acceleration is 4 * distance^2 / screen_diagonal^2:
\* the new center and velocity_history, and the position returned
\* a dead zone that takes in its rim
in_dead_zone_inclusive(distance2) ==
    distance2 <= dead_zone_radius * dead_zone_radius

\* distance < self.dead_zone, on the squares
in_dead_zone(distance2) ==
    distance2 < dead_zone_radius * dead_zone_radius

VelocityBasedSmoother_apply(center, velocity_history, position) ==
    LET c == IF center = None
             THEN <<screen_size[1] \div 2, screen_size[2] \div 2>>
             ELSE center
        diff == <<position[1] - c[1], position[2] - c[2]>>
        distance2 == diff[1] * diff[1] + diff[2] * diff[2]
        diagonal2 == screen_size[1] * screen_size[1]
                       + screen_size[2] * screen_size[2]
        result == [i \in 1..2 |->
                     c[i] + (diff[i] * (diagonal2 + 4 * distance2))
                              \div diagonal2]
        appended == Append(velocity_history, position)
    IN  IF in_dead_zone(distance2)
        THEN [center |-> c, velocity_history |-> velocity_history,
              position |-> c]
        ELSE [center |-> c,
              velocity_history |->
                  IF Len(appended) > velocity_history_maxlen
                  THEN Tail(appended) ELSE appended,
              position |-> <<clip(result[1], 1, screen_size[1])[1],
                             clip(result[2], 1, screen_size[2])[1]>>]

\* CursorSmoother.smooth on a smoother s: the smoother it leaves, with the
\* position it returns in last_position
smoothed(s, raw_position) ==
    LET ema == EMAFilter_update(s.ema, raw_position)
        kalman == IF s.use_kalman THEN KalmanFilter_update(s.kalman, ema)
                  ELSE s.kalman
        filtered == IF s.use_kalman THEN <<kalman.state[1], kalman.state[2]>>
                    ELSE ema
        applied == VelocityBasedSmoother_apply(s.center, s.velocity_history,
                                               filtered)
    IN  [use_kalman |-> s.use_kalman,
         ema |-> ema,
         kalman |-> kalman,
         center |-> applied.center,
         velocity_history |-> applied.velocity_history,
         last_position |->
             <<clip(applied.position[1], 1, screen_size[1])[1],
               clip(applied.position[2], 1, screen_size[2])[1]>>]

\* a reset that leaves the moving average in place
cleared_but_ema(s) ==
    [s EXCEPT !.kalman = [state |-> <<0, 0, 0, 0>>,
                          P |-> <<100000, 0, 100000>>,
                          initialized |-> FALSE],
              !.center = None, !.velocity_history = <<>>,
              !.last_position = None]

\* CursorSmoother.reset: what it leaves of a smoother s
cleared(s) ==
    [s EXCEPT !.ema = None,
              !.kalman = IF s.use_kalman
                         THEN [state |-> <<0, 0, 0, 0>>,
                               P |-> <<100000, 0, 100000>>,
                               initialized |-> FALSE]
                         ELSE @,
              !.center = None, !.velocity_history = <<>>,
              !.last_position = None]

\* the application constructs its smoother from the gaze configuration
CursorSmoother_init(use_kalman) ==
    /\ smoother' = constructed(use_kalman)
    /\ last_smooth' = [NoSmooth EXCEPT !.op = "init",
                                       !.calls = last_smooth.calls]
    /\ UNCHANGED <<mapping, gaze_estimate>>
    /\ UNCHANGED <<gateVars, mapperVars, exprVars, calVars, cameraVars,
                   appVars>>

CursorSmoother_smooth(raw_position) ==
    /\ last_smooth.calls < MaxSmooths
    /\ smoother' = smoothed(smoother, raw_position)
    /\ last_smooth' = [op |-> "smooth", calls |-> last_smooth.calls + 1,
                       since_reset |-> last_smooth.since_reset + 1,
                       after_reset |-> last_smooth.after_reset,
                       raw |-> raw_position,
                       position |-> smoother'.last_position,
                       center |-> smoother.center,
                       velocity_history |-> smoother.velocity_history,
                       filtered |->
                           IF smoother.use_kalman
                           THEN <<smoother'.kalman.state[1],
                                  smoother'.kalman.state[2]>>
                           ELSE smoother'.ema,
                       applied |->
                           VelocityBasedSmoother_apply(
                               smoother.center, smoother.velocity_history,
                               IF smoother.use_kalman
                               THEN <<smoother'.kalman.state[1],
                                      smoother'.kalman.state[2]>>
                               ELSE smoother'.ema).position]
    /\ UNCHANGED <<mapping, gaze_estimate>>
    /\ UNCHANGED <<gateVars, mapperVars, exprVars, calVars, cameraVars,
                   appVars>>

CursorSmoother_reset ==
    /\ smoother' = cleared(smoother)
    /\ last_smooth' = [NoSmooth EXCEPT !.op = "reset", !.after_reset = TRUE,
                                       !.calls = last_smooth.calls]
    /\ UNCHANGED <<mapping, gaze_estimate>>
    /\ UNCHANGED <<gateVars, mapperVars, exprVars, calVars, cameraVars,
                   appVars>>

----------------------------------------------------------------------------

Init ==
    /\ now = StartTime
    /\ enabled = TRUE
    /\ paused = FALSE
    /\ click_times = <<>>
    /\ action_cooldowns = <<>>
    /\ last_face_time = StartTime
    /\ nreg = 0
    /\ click_log = <<>>
    /\ reg_log = <<>>
    /\ fresh = NoFresh
    /\ stopped = FALSE
    /\ probed = FALSE
    /\ cursor_enabled = TRUE
    /\ keyboard_mode = FALSE
    /\ last_action_time = 0
    /\ last_req = NoReq
    /\ calibration_points = <<>>
    /\ is_calibrated = FALSE
    /\ transform_matrix = _init_default_mapping
    /\ eye_dominance = "both"
    /\ last_fit = NoFit
    /\ current_state = NoneState
    /\ last_blink_time = 0
    /\ baseline_left_ear = Ears.open
    /\ baseline_right_ear = Ears.open
    /\ baseline_samples = [n |-> 0, left |-> 0, right |-> 0]
    /\ baseline_initialized = FALSE
    /\ left_eye_closed = FALSE
    /\ right_eye_closed = FALSE
    /\ both_eyes_closed = FALSE
    /\ blink_start_time = 0
    /\ seen = NoSeen
    /\ last_obs = NoObs
    /\ state = "idle"
    /\ current_target_index = 0
    /\ targets = <<>>
    /\ target_start_time = 0
    /\ last_cal = NoCal
    /\ activation = NoActivation
    /\ thread = FALSE
    /\ running = FALSE
    /\ frame_queue = <<>>
    /\ consecutive_failures = 0
    /\ camera_pc = "none"
    /\ frame = 0
    /\ latest_frame = 0
    /\ getters = [c \in Consumers |-> Getter]
    /\ camera = NoCamera
    /\ last_get = NoGet
    /\ mapping = NoMapping
    /\ gaze_estimate = [left_iris |-> None, right_iris |-> None,
                        dominance |-> "none", gaze |-> None,
                        norm_gaze |-> None]
    /\ smoother = constructed(TRUE)
    /\ last_smooth = NoSmooth
    /\ app = NoApp

NextSafety ==
    \/ \E b \in BOOLEAN : update_face_detection(b)
    \/ \E k \in Kinds : can_perform_action(k)
    \/ \E k \in Kinds : register_action(k)
    \/ emergency_stop
    \/ resume
    \/ Tick(MaxTime)

SpecSafety == Init /\ [][NextSafety]_vars

NextController ==
    \/ \E a \in ActionSamples, r \in BOOLEAN : execute_action(a, r)
    \/ \E b \in BOOLEAN : on_frame_processed(b)
    \/ app_emergency_stop
    \/ resume
    \/ Tick(MaxCtrlTime)

SpecController == Init /\ [][NextController]_vars

NextClicks ==
    \/ \E r \in BOOLEAN : SystemController_click(r)
    \/ \E b \in BOOLEAN : update_face_detection(b)
    \/ emergency_stop
    \/ resume
    \/ Tick(MaxCtrlTime)

SpecClicks == Init /\ [][NextClicks]_vars

NextMapper ==
    \/ \E s \in Samples : add_calibration_point(s)
    \/ compute_calibration
    \/ \E d \in DataLists : set_calibration_data(d)
    \/ \E p \in Profiles : load_calibration(p)
    \/ reset_calibration

SpecMapper == Init /\ [][NextMapper]_vars

NextExpression ==
    \/ \E d \in EyeDatas : detect_expression(d)
    \/ ExpressionEngine_reset
    \/ next_frame

SpecExpression == Init /\ [][NextExpression]_vars

NextThread ==
    \/ \E d \in EyeDatas : run(d)
    \/ ExpressionEngine_reset
    \/ next_frame

SpecThread == Init /\ [][NextThread]_vars

NextCalibrator ==
    \/ start
    \/ next_target
    \/ \E l, r \in Irises : collect_sample(l, r)
    \/ Calibrator_compute_calibration
    \/ Calibrator_reset
    \/ Tick(MaxCalTime)

SpecCalibrator == Init /\ [][NextCalibrator]_vars

NextCamera ==
    \/ Camera_start
    \/ Camera_stop
    \/ \E r \in ReadResults : CameraThread_run(r)
    \/ \E c \in Consumers : get_frame(c)

SpecCamera == Init /\ [][NextCamera]_vars

\* a camera that delivers frames, read by the two callers of get_frame
NextFrames ==
    \/ Camera_start
    \/ CameraThread_run("frame")
    \/ \E c \in Consumers : get_frame_traced(c)

SpecFrames == Init /\ [][NextFrames]_vars

\* the calibration screen hands over its samples in target order, the
\* restored session is one in general position, and the profiles are the
\* ones load_calibration takes a matrix from
NextReader ==
    LET order == <<sample_at(100, 100), sample_at(1180, 100),
                   sample_at(640, 360)>>
        next == order[(Len(calibration_points) % 3) + 1]
    IN  \/ add_calibration_point(next)
        \/ compute_calibration
        \/ set_calibration_data(order \o <<order[1]>>)
        \/ \E p \in {q \in Profiles :
                        load_stage(q) \in {"matrix_set", "loaded"}} :
              load_calibration(p)
        \/ reset_calibration
        \/ \E g \in Gazes : gaze_to_screen(g)

SpecReader == Init /\ [][NextReader]_vars

NextEstimate ==
    \E l, r \in IrisCenters, d \in {"left", "right", "both"} :
        GazeMapper_estimate_gaze(l, r, d)

SpecEstimate == Init /\ [][NextEstimate]_vars

\* iris centres on a grid of the 1280 x 720 frame set_calibration_data
\* assumes
NextCalibrationGaze ==
    \E l, r \in {<<x, y>> : x \in {0, 320, 640, 1280}, y \in {0, 360, 720}},
       d \in {"left", "right", "both"} :
        set_calibration_data_point(l, r, d)

SpecCalibrationGaze == Init /\ [][NextCalibrationGaze]_vars

NextSmoother ==
    \/ \E k \in BOOLEAN : CursorSmoother_init(k)
    \/ \E p \in RawPositions : CursorSmoother_smooth(p)
    \/ CursorSmoother_reset

SpecSmoother == Init /\ [][NextSmoother]_vars

NextApp ==
    \/ _start_tracking
    \/ _stop_tracking
    \/ \E sampled \in BOOLEAN : _start_calibration(sampled)
    \/ \E sampled \in BOOLEAN : next_point(sampled)
    \/ skip_calibration
    \/ ProcessingThread_run

\* the scheduler lets the processing thread take a step it can take; the
\* user may leave the window alone
SpecApp ==
    /\ Init /\ [][NextApp]_vars
    /\ WF_vars(ProcessingThread_run)

NextAcquisition ==
    \/ Camera_start
    \/ Camera_stop
    \/ \E r \in ReadResults : CameraThread_run(r)

\* the scheduler lets a thread that can take a step take one
SpecAcquisition ==
    /\ Init /\ [][NextAcquisition]_vars
    /\ WF_vars(\E r \in ReadResults : CameraThread_run(r))

----------------------------------------------------------------------------
(* The safety gate *)

\* the clicks registered since the last resume() that lie within one second
\* of now
recent_clicks(log) == {i \in 1..Len(log) : now - log[i] <= click_window_ms}

fresh_clicks ==
    {i \in recent_clicks(click_log) : i > Len(click_log) - fresh.clicks}

\* the minimum intervals the specification gives, in ms
min_interval == [click |-> 200, scroll |-> 100, key |-> 300]

\* kind was registered, and less than its minimum interval ago
just_registered(kind) ==
    kind \in DOMAIN reg_log /\ now - reg_log[kind] < min_interval[kind]

\* C1: after emergency_stop() and until resume(), whatever is called on the
\* gate, enabled is false, paused is true and can_perform_action returns
\* False for every kind.
C1_EmergencyStopLatched ==
    stopped => /\ ~enabled
               /\ paused
               /\ \A k \in Kinds : ~can_perform_value(k)

\* C1: a face was reported to a stopped gate, which is still stopped
C1_Witness == stopped /\ probed /\ ~enabled /\ paused

C4_PureQuery ==
    [][(\E k \in Kinds : can_perform_action(k)) => UNCHANGED safetyVars]_vars

C7_AutoPause ==
    [][ /\ (update_face_detection(FALSE)
              /\ now - last_face_time > no_face_timeout) => paused'
        /\ (update_face_detection(FALSE)
              /\ now - last_face_time <= no_face_timeout) => paused' = paused
        /\ update_face_detection(TRUE) => paused' = (paused /\ ~enabled)
      ]_vars

\* C7: the gate is enabled and paused, which only a late no-face update does
C7_Witness == enabled /\ paused /\ now - last_face_time > no_face_timeout

----------------------------------------------------------------------------
(* The controller *)

\* C3: whatever the controller carried out for a request, the gate was
\* active and can_perform_action had returned True for it.
C3_EveryActionGated ==
    last_req.effect => (last_req.allowed /\ last_req.active)

\* C5: a click, scroll or key request registers exactly once if
\* can_perform_action allowed it and not at all if it was denied.
C5_RegisteredOncePerAllowed ==
    last_req.kind \in Kinds
        => last_req.registered = (IF last_req.allowed THEN 1 ELSE 0)

----------------------------------------------------------------------------
(* The gaze mapper *)

Fits == {"compute_calibration", "set_calibration_data"}

\* C8: a compute_calibration, set_calibration_data or load_calibration that
\* returned False has left transform_matrix, is_calibrated and
\* eye_dominance as they were.
C8_FailureChangesNothing ==
    (last_fit.op \in Fits \cup {"load_calibration"} /\ ~last_fit.ok)
        => ~last_fit.changed

\* C9: a fit with fewer than 4 points returns False and leaves
\* transform_matrix and is_calibrated as they were.
C9_TooFewPointsFail ==
    (last_fit.op \in Fits /\ last_fit.points < 4)
        => (~last_fit.ok /\ ~last_fit.changed)

\* C9: a calibrated mapper has just refused to fit its three stored points
C9_Witness ==
    /\ last_fit.op = "compute_calibration"
    /\ last_fit.points = 3
    /\ ~last_fit.ok
    /\ is_calibrated

\* C10: a fit with 4 or more points whose gaze vectors are coincident or
\* collinear returns False and does not replace the transform.
C10_DegenerateFitFails ==
    (last_fit.op \in Fits /\ last_fit.points >= 4 /\ last_fit.degenerate)
        => (~last_fit.ok /\ ~last_fit.changed)

\* C11: a load_calibration of a profile whose stored width or height is not
\* the mapper's returns False and changes nothing, whatever else the
\* profile holds.
C11_MismatchRejected ==
    (last_fit.op = "load_calibration" /\ last_fit.mismatch)
        => (~last_fit.ok /\ ~last_fit.changed)

\* C11: a calibrated mapper has just refused a profile of another screen
C11_Witness ==
    /\ last_fit.op = "load_calibration"
    /\ last_fit.mismatch
    /\ ~last_fit.ok
    /\ is_calibrated


(* C12: ProcessingThread emits expression_detected once per classified     *)
(* blink: on a face frame on which detect_expression classifies nothing    *)
(* new (a cooldown frame, or the eyes simply open) NONE is returned and    *)
(* no event is emitted.                                                    *)
C12_EmittedOncePerBlink ==
    (last_obs.op = "run" /\ last_obs.face /\ last_obs.result = "none")
        => (last_obs.returned = "none" /\ ~last_obs.emitted)

(* C13: with the baseline established and no cooldown active, a closure    *)
(* of both eyes first observed at t0 and ended at t1 is classified         *)
(* BLINK_BOTH_LONG when t1 - t0 >= long_blink_duration and BLINK_BOTH      *)
(* when it is less, and as nothing else.                                   *)
C13_BothBlinkByDuration ==
    (last_obs.processed /\ last_obs.both_for >= 0)
        => last_obs.result = IF last_obs.both_for >= long_blink_ms
                             THEN "blink_both_long" ELSE "blink_both"

C13_Witness ==
    /\ last_obs.processed
    /\ last_obs.both_for >= long_blink_ms
    /\ last_obs.both_for < long_blink_ms + FrameMs
    /\ last_obs.result = "blink_both_long"

(* C14: a closure of one eye, the other open throughout, that lasted       *)
(* 300 ms or more is never classified BLINK_LEFT or BLINK_RIGHT.           *)
C14_LongWinkNeverSingle ==
    (last_obs.wink_eye # "none" /\ last_obs.wink_for >= single_blink_ms
       /\ seen.eyes = "open")
        => last_obs.result \notin {"blink_left", "blink_right"}

(* C15: with the baseline established and no cooldown active, an eye       *)
(* observed closed while the other is open and observed open again less    *)
(* than 300 ms later is classified as that eye's blink on the reopening    *)
(* frame, whatever closures preceded it.                                   *)
C15_QuickWinkClassified ==
    (last_obs.wink_clean /\ last_obs.wink_for < single_blink_ms
       /\ seen.eyes = "open")
        => last_obs.result = IF last_obs.wink_eye = "left"
                             THEN "blink_left" ELSE "blink_right"

(* C16: two classifications are never less than blink_cooldown apart: a    *)
(* detect_expression call made less than blink_cooldown after a            *)
(* classification classifies nothing and changes no latch and no timer.    *)
C16_CooldownBetweenClassifications ==
    (last_obs.op # "none" /\ last_obs.since_class >= 0
       /\ last_obs.since_class < blink_cooldown_ms)
        => (last_obs.result = "none" /\ ~last_obs.latch_changed)

C16_Witness ==
    /\ last_obs.op # "none" /\ last_obs.face
    /\ last_obs.since_class > 0
    /\ last_obs.since_class < blink_cooldown_ms
    /\ baseline_initialized
    /\ seen.eyes = "both"
    /\ ~both_eyes_closed

(* C17: after construction or reset() detect_expression returns NONE and   *)
(* sets no latch until the baseline is established, and the baseline is    *)
(* the mean of exactly the first 30 observations with a face: those        *)
(* without a face do not count.                                            *)
C17_BaselineFromFirstThirty ==
    /\ ~baseline_initialized
         => /\ current_state.expression = "none"
            /\ ~left_eye_closed /\ ~right_eye_closed /\ ~both_eyes_closed
            /\ blink_start_time = 0
    /\ baseline_initialized
         => /\ seen.faces >= baseline_size
            /\ baseline_left_ear * baseline_size = seen.left
            /\ baseline_right_ear * baseline_size = seen.right

C17_Witness ==
    /\ baseline_initialized
    /\ last_obs.op # "none"
    /\ seen.faces = baseline_size + 1
    /\ seen.left < baseline_size * Ears.open
    /\ seen.classified_at >= 0

(* C18: detect_expression on an observation without a face returns NONE    *)
(* and leaves the three latches, the blink timer, the cooldown timestamp   *)
(* and the baseline accumulator unchanged.                                 *)
C18_NoFaceChangesNothing ==
    (last_obs.op # "none" /\ ~last_obs.face)
        => /\ last_obs.returned = "none"
           /\ ~last_obs.latch_changed
           /\ ~last_obs.other_changed

C18_Witness ==
    /\ last_obs.op # "none" /\ ~last_obs.face
    /\ left_eye_closed
    /\ blink_start_time > 0
    /\ baseline_initialized
    /\ last_blink_time > 0


(* C19: in Complete or Failed no operation other than reset() changes the  *)
(* state: start(), next_target(), collect_sample() and                     *)
(* compute_calibration() leave the state, the targets and the number of    *)
(* callbacks fired as they are.                                            *)
C19_TerminalStatesFrozen ==
    (last_cal.op \in {"start", "next_target", "collect_sample",
                      "compute_calibration"}
       /\ last_cal.from \in {"complete", "failed"})
        => /\ ~last_cal.changed
           /\ last_cal.target_complete = -1
           /\ ~last_cal.calibration_complete

\* the order of a calibration session
Lifecycle ==
    {<<"idle", "intro">>, <<"intro", "positioning">>,
     <<"intro", "collecting">>, <<"positioning", "collecting">>,
     <<"collecting", "collecting">>, <<"collecting", "computing">>,
     <<"computing", "complete">>, <<"computing", "failed">>}

(* C20: every change of state follows Idle, Intro, Positioning,            *)
(* Collecting, Computing, then Complete or Failed, with Collecting to      *)
(* Collecting for the next target and reset() leading to Idle: start()     *)
(* takes effect only in Idle, Collecting is entered only from Intro,       *)
(* Positioning or Collecting, Computing only from Collecting.              *)
C20_LifecycleOrder ==
    last_cal.op # "none"
        => IF last_cal.op = "reset" THEN state = "idle"
           ELSE /\ state = last_cal.from \/ <<last_cal.from, state>> \in Lifecycle
                /\ (last_cal.op = "start" /\ last_cal.from # "idle")
                     => ~last_cal.changed


(* C21: compute_calibration moves Computing to Complete only when every    *)
(* generated target is completed and to Failed when one is not; in every   *)
(* Complete state all targets are completed.                               *)
C21_CompleteMeansAllCompleted ==
    LET all == \A i \in 1..Len(targets) : targets[i].completed
    IN  /\ state = "complete" => all
        /\ (last_cal.op = "compute_calibration" /\ last_cal.from = "computing")
             => state = IF all THEN "complete" ELSE "failed"

C21_Witness ==
    /\ last_cal.op = "compute_calibration"
    /\ last_cal.from = "computing"
    /\ state = "complete"
    /\ Len(targets) = num_points

(* C22: a target is marked completed only when at least duration_ms has    *)
(* passed since next_target() last activated it; then on_target_complete   *)
(* fires once for its index, current_target_index advances by one and the  *)
(* session is in Collecting on the next target, or in Computing after the  *)
(* last one.                                                               *)
C22_CompletedAfterDwell ==
    \A i \in last_cal.completed :
        /\ last_cal.op = "collect_sample"
        /\ last_cal.completed = {i}
        /\ i = last_cal.index + 1
        /\ last_cal.dwell >= targets[i].duration_ms
        /\ last_cal.target_complete = last_cal.index
        /\ current_target_index = last_cal.index + 1
        /\ IF current_target_index < Len(targets)
           THEN state = "collecting" /\ activation.index = current_target_index
           ELSE state = "computing"

C22_Witness ==
    /\ last_cal.completed = {2}
    /\ last_cal.dwell >= duration_per_point
    /\ state = "collecting"
    /\ current_target_index = 2


----------------------------------------------------------------------------
(* C23: whatever the order of the steps of the acquisition thread and of   *)
(* the get_frame calls, the buffer holds at most 2 frames, put_nowait      *)
(* always finds room (the producer never blocks and never loses the frame  *)
(* to a full buffer), and the only frame the producer takes out of the     *)
(* buffer is the oldest one in it, after it found the buffer full.  Every  *)
(* frame of non-zero size that was read is therefore enqueued.             *)
C23_BufferBoundedNeverBlocks ==
    /\ Len(frame_queue) <= queue_maxsize
    /\ camera.lost # "full"
    /\ camera.dropped # "other"
    /\ camera_pc = "put_nowait" => Len(frame_queue) < queue_maxsize

C23_Witness ==
    /\ camera.dropped = "oldest"
    /\ camera_pc = "put_nowait"
    /\ \E c \in Consumers : getters[c].pc = "store"

(* C23 as stated: every successfully read frame is enqueued, the only      *)
(* frame the producer discards being the oldest buffered one.  A read that *)
(* succeeds with a frame of size 0 is discarded without being enqueued.    *)
C23_EveryReadFrameEnqueued ==
    /\ Len(frame_queue) <= queue_maxsize
    /\ camera.lost = "none"
    /\ camera.dropped # "other"


----------------------------------------------------------------------------
(* C24: a get_frame call that took frames out of the buffer returns the    *)
(* frame it took out last, the most recently enqueued of them.             *)
C24_ReturnsNewestRemoved ==
    last_get.removed > 0 => last_get.returned = last_get.removed


----------------------------------------------------------------------------
(* C25: once the acquisition loop has given up after too many failed reads *)
(* in a row, get_stats reports running = false and every get_frame call    *)
(* that ends returns None.                                                 *)
C25_AbortedMeansStopped ==
    camera.aborted =>
        /\ ~get_stats_running
        /\ last_get.consumer # "none" => last_get.returned = 0

----------------------------------------------------------------------------
(* C26: the loop gives up exactly when more than max_failures reads in a   *)
(* row have failed: it has exited on failures if and only if the run of    *)
(* failed reads since the last successful read is longer than              *)
(* max_failures, the counter is that run's length (zero after a successful *)
(* read), and the run never grows beyond max_failures + 1 reads.           *)
C26_AbortAfterFailures ==
    /\ consecutive_failures = camera.failed_reads
    /\ camera.aborted <=> camera.failed_reads > max_failures
    /\ camera.aborted => camera_pc = "exited"
    /\ camera.failed_reads <= max_failures + 1

C26_Witness ==
    /\ camera.aborted
    /\ camera.frames > 0
    /\ camera.failed_reads = max_failures + 1


----------------------------------------------------------------------------
(* C27: once Camera.stop() has reached a thread whose loop has not exited, *)
(* the loop eventually exits, wherever run() stood when stop() was called. *)
C27_StopEventuallyExits ==
    camera.stopping ~> camera_pc = "exited"


----------------------------------------------------------------------------
(* C28: a gaze_to_screen call that runs while the mapper is recalibrated,  *)
(* loaded or reset returns the gaze mapped by one whole matrix: the one    *)
(* that was in place when the call read it or the one in place when it     *)
(* multiplied, never rows of both.                                         *)
C28_WholeMatrix ==
    mapping.pc = "returned" =>
        mapping.screen_pos \in {clamped(mapping.operand, mapping.gaze),
                                clamped(mapping.latest, mapping.gaze)}

C28_Witness ==
    /\ mapping.pc = "returned"
    /\ clamped(mapping.operand, mapping.gaze)[1]
         # clamped(mapping.latest, mapping.gaze)[1]
    /\ clamped(mapping.operand, mapping.gaze)[2]
         # clamped(mapping.latest, mapping.gaze)[2]
    /\ last_fit.op \in {"compute_calibration", "set_calibration_data",
                        "load_calibration"}


----------------------------------------------------------------------------
(* C29: estimate_gaze returns None exactly when both irises are absent.    *)
(* Otherwise each component is 2 * (pos / dimension) - 1 of the one iris   *)
(* present, or, with both present, of the left iris, of the right iris or  *)
(* the mean of the two, as eye_dominance says; and for irises inside the   *)
(* frame it lies in [-1, 1].                                               *)
C29_EstimateGaze ==
    LET e == gaze_estimate
        dims == <<FrameWidth, FrameHeight>>
        \* c = 2 * (pos / dimension) - 1
        is_norm(c, pos, dimension) ==
            c[1] * dimension = c[2] * (2 * pos - dimension)
        \* c = the mean of the two normalised positions
        is_mean(c, p, q, dimension) ==
            2 * c[1] * dimension
                = c[2] * ((2 * p - dimension) + (2 * q - dimension))
        chosen == IF e.left_iris = None THEN e.right_iris
                  ELSE IF e.right_iris = None THEN e.left_iris
                  ELSE IF e.dominance = "left" THEN e.left_iris
                  ELSE IF e.dominance = "right" THEN e.right_iris
                  ELSE None
    IN  e.dominance # "none" =>
          /\ e.gaze = None <=> (e.left_iris = None /\ e.right_iris = None)
          /\ e.gaze # None =>
               \A k \in 1..2 :
                  /\ e.gaze[k][2] > 0
                  /\ IF chosen # None
                     THEN is_norm(e.gaze[k], chosen[k], dims[k])
                     ELSE is_mean(e.gaze[k], e.left_iris[k], e.right_iris[k],
                                  dims[k])
                  /\ -e.gaze[k][2] <= e.gaze[k][1]
                  /\ e.gaze[k][1] <= e.gaze[k][2]

C29_Witness ==
    /\ gaze_estimate.dominance = "both"
    /\ gaze_estimate.left_iris = <<0, 0>>
    /\ gaze_estimate.right_iris = <<1, 1>>
    /\ gaze_estimate.gaze = <<<<-3, 4>>, <<0, 1>>>>


----------------------------------------------------------------------------
(* C30: reset() leaves the smoother as its constructor makes it, and the   *)
(* first smooth(p, screen) after a reset returns what a newly constructed  *)
(* smoother of the same configuration returns for p, whatever positions    *)
(* were smoothed before the reset.                                         *)
C30_ResetIsFresh ==
    /\ last_smooth.op = "reset" => smoother = constructed(smoother.use_kalman)
    /\ (last_smooth.op = "smooth" /\ last_smooth.since_reset = 1
           /\ last_smooth.after_reset)
         => last_smooth.position
              = smoothed(constructed(smoother.use_kalman),
                         last_smooth.raw).last_position

C30_Witness ==
    /\ last_smooth.op = "smooth"
    /\ last_smooth.since_reset = 1
    /\ last_smooth.after_reset
    /\ last_smooth.calls = MaxSmooths
    /\ smoother.use_kalman
    /\ last_smooth.raw = <<50, 35>>
    /\ last_smooth.position = <<40, 30>>


----------------------------------------------------------------------------
(* C31: every position CursorSmoother.smooth returns is on the screen: x   *)
(* in [0, width] and y in [0, height], wherever the raw positions were.    *)
C31_OnScreen ==
    last_smooth.op = "smooth" =>
        \A i \in 1..2 : /\ 0 <= last_smooth.position[i]
                        /\ last_smooth.position[i] <= screen_size[i]

C31_Witness ==
    /\ last_smooth.op = "smooth"
    /\ last_smooth.raw = <<60, 90>>
    /\ last_smooth.filtered[2] > screen_size[2]
    /\ last_smooth.position[2] = screen_size[2]

----------------------------------------------------------------------------
(* C32: VelocityBasedSmoother.apply returns exactly the anchor, and leaves *)
(* the anchor and the history of recent positions as they were, when the   *)
(* position is closer to the anchor than dead_zone; at distance dead_zone  *)
(* or more it returns a position other than the anchor and records the     *)
(* position in the history.                                                *)
C32_DeadZone ==
    LET anchor == IF last_smooth.center = None
                  THEN <<screen_size[1] \div 2, screen_size[2] \div 2>>
                  ELSE last_smooth.center
        dx == last_smooth.filtered[1] - anchor[1]
        dy == last_smooth.filtered[2] - anchor[2]
        frozen == dx * dx + dy * dy < dead_zone_radius * dead_zone_radius
    IN  last_smooth.op = "smooth" =>
          /\ smoother.center = anchor
          /\ frozen => /\ last_smooth.applied = anchor
                       /\ smoother.velocity_history
                            = last_smooth.velocity_history
          /\ ~frozen => /\ last_smooth.applied # anchor
                        /\ smoother.velocity_history
                             = Append(last_smooth.velocity_history,
                                      last_smooth.filtered)

C32_Witness ==
    /\ last_smooth.op = "smooth"
    /\ last_smooth.center # None
    /\ last_smooth.velocity_history # <<>>
    /\ last_smooth.filtered # <<40, 30>>
    /\ last_smooth.applied = <<40, 30>>
    /\ smoother.velocity_history = last_smooth.velocity_history


----------------------------------------------------------------------------
(* C33: the gaze set_calibration_data computes for a calibration sample is *)
(* the gaze estimate_gaze returns while tracking for the same two irises,  *)
(* the same frame and the same eye_dominance.                              *)
C33_SameGaze ==
    gaze_estimate.norm_gaze # None =>
        gaze_estimate.norm_gaze = gaze_estimate.gaze


(* C34: in every reachable Calibrator state target i (counted from 0) is   *)
(* completed exactly when i < current_target_index; one call completes at  *)
(* most the target at the index and then advances the index by one, and    *)
(* next_target() changes neither the index nor a target.                   *)
C34_CompletedBelowIndex ==
    /\ \A i \in 1..Len(targets) :
           targets[i].completed <=> (i - 1 < current_target_index)
    /\ last_cal.completed \subseteq {last_cal.index + 1}
    /\ last_cal.completed # {} => current_target_index = last_cal.index + 1
    /\ last_cal.op = "next_target"
         => /\ current_target_index = last_cal.index
            /\ last_cal.completed = {}

C34_Witness ==
    /\ last_cal.op = "collect_sample"
    /\ last_cal.completed = {2}
    /\ current_target_index = 2
    /\ targets[2].completed
    /\ ~targets[3].completed


(* C35: the Calibrator is in Complete only with the non-empty target list  *)
(* start() generated, every target of it completed; no sequence of calls   *)
(* from Idle reaches Complete with zero targets.                           *)
C35_CompleteHasTargets ==
    state = "complete"
        => /\ Len(targets) = num_points
           /\ \A i \in 1..Len(targets) : targets[i].completed


(* C36: the duration of the ExpressionState reported with a classified     *)
(* blink is the time the classified closure lasted, from the frame that    *)
(* showed it first to the frame that showed it ended.                      *)
C36_DurationIsClosure ==
    (last_obs.processed /\ last_obs.result # "none")
        => /\ (last_obs.result \in {"blink_both", "blink_both_long"}
                  /\ last_obs.both_for >= 0)
                 => current_state.duration = last_obs.both_for
           /\ (last_obs.result \in {"blink_left", "blink_right"}
                  /\ last_obs.wink_eye # "none")
                 => current_state.duration = last_obs.wink_for


(* C37: the left and the right single-closure latch are never both set,    *)
(* and while a latch is set blink_start_time holds the time of the frame   *)
(* that set it: it is that frame's time when the latch is set and is not   *)
(* changed as long as the latch stays set.                                 *)
C37_LatchesAndTimer ==
    [][/\ ~(left_eye_closed' /\ right_eye_closed')
       /\ \A latch \in {<<left_eye_closed, left_eye_closed'>>,
                        <<right_eye_closed, right_eye_closed'>>} :
            /\ (~latch[1] /\ latch[2]) => blink_start_time' = now
            /\ (latch[1] /\ latch[2]) => blink_start_time' = blink_start_time
      ]_vars


(* C38: whatever sequence of SystemController.click, update_face_detection, *)
(* emergency_stop and resume is called, no span of one second holds more   *)
(* than max_clicks_per_second registered clicks, and two clicks that were  *)
(* dispatched one after the other are at least 0.2 s apart.                *)
C38_ClicksLimited ==
    /\ \A i \in 1..Len(click_log) :
           Cardinality({j \in i..Len(click_log) :
                          click_log[j] - click_log[i] < click_window_ms})
             <= max_clicks_per_second
    /\ \A i \in 1..(Len(click_log) - 1) :
           click_log[i + 1] - click_log[i] >= min_interval.click


(* C39: with the processing thread and the camera feed timer both calling  *)
(* get_frame, the frames one caller is returned never go back in capture   *)
(* order: a call that returns a frame returns none older than the frame    *)
(* the caller's previous call returned.                                    *)
C39_FramesInCaptureOrder ==
    (last_get.consumer # "none" /\ last_get.returned # 0)
        => last_get.returned >= last_get.previous


(* C40: whenever a calibration that was started while tracking was running *)
(* has finished (completed, skipped, or with too few points), a processing *)
(* thread is running again afterwards, at the latest by the time the user  *)
(* gives the window its next command.                                      *)
C40_ProcessingResumes ==
    (app.finished # "none") ~> (isRunning \/ app.finished = "none")

====
